---- MODULE Spec2Model ----
(***************************************************************************)
(* Dataset replication control plane of urchin                             *)
(* (client/daemon/urchin_dataset/urchin_dataset.go and                     *)
(* client/urchin_util/util.go).                                            *)
(*                                                                         *)
(* One dataset id is modelled.  The key-value store is the state: the      *)
(* primary hash of the dataset, the creation-time sorted set, the name and *)
(* tags prefix keys, the replica directory key and the version records.    *)
(* A request handler and the detached scale-up goroutine are processes     *)
(* that take one step per call to the store or to a seed peer: the step    *)
(* holds the call and the local computation that follows it, up to the     *)
(* next call.  The requests in flight and the goroutines interleave call   *)
(* by call.  A store or HTTP call that can return an error in the code can *)
(* fail in the model: whether it fails is an input of its step.            *)
(*                                                                         *)
(* Strings that the code parses or matches (names, search keys, endpoint   *)
(* paths, joined tags) are sequences of one-character strings; strings it  *)
(* only copies are TLA+ strings.  A host "ip:port" is the pair             *)
(* <<ip, port>>; the empty string (zero value of a Go string) in a host    *)
(* list is <<>>.                                                           *)
(***************************************************************************)
EXTENDS Integers, Sequences, FiniteSets, TLC

VARIABLES
    build,       \* capacity policy of the JSON decoder of the Go toolchain
    hash,        \* primary hash urchin:dataset:<id>: a record of the fields present
    zset,        \* urchin:dataset:create_time: set of <<id, score>>
    nameKeys,    \* names n for which urchin:dataset:<id>:match_prefix_name:<n> exists
    tagsKeys,    \* joined tags t for which ...:match_prefix_tags:<t> exists
    replicaKey,  \* replica:seed-peer:<id>: whether the key exists, and its list of hosts
    versions,    \* version records of the dataset: version id -> record
    requests,    \* request handlers in flight: their position and local variables
    workers,     \* scale-up goroutines in flight
    started,     \* number of scale-up goroutines started so far
    faults,      \* number of failures of the store, the seed peers and Dynconfig so far
    idUsed,      \* the dataset id has been handed out by GetUUID
    updates,     \* number of calls of UpdateDataSetImpl so far
    now,         \* time.Now().Unix()
    last,        \* what the most recent step did (history, read by the properties)
    call,        \* a call of a function on its own: its arguments and what it returned
    tmpSets      \* ephemeral sets of the listing: key -> members and time to live

vars == <<build, hash, zset, nameKeys, tagsKeys, replicaKey, versions, requests, workers,
          started, faults, idUsed, updates, now, last, call, tmpSets>>

---------------------------------------------------------------------------
(* Bounds *)

\* number of seed peers with a distinct IP known to Dynconfig
MaxPeers == 3
\* Opt.ObjectStorage.MaxReplicas of the daemon configuration
MaxReplicas == 2
\* request handlers that are in flight at a time
MaxRequests == 1
\* scale-up goroutines that are started in one behaviour
MaxWorkers == 1
\* calls of UpdateDataSetImpl in one behaviour
MaxUpdates == 2
\* calls to the store, the seed peers and Dynconfig that fail in one behaviour (a
\* repeated call to a seed peer that fails again is counted with the first)
MaxFaults == 1

---------------------------------------------------------------------------
(* Program constants *)

ReplicaNoScale == 0
ReplicaScaleUP == 1
ReplicaScaleDown == 2
ReplicaScaleUnknown == 3

DataSetID == "d1"
DefaultDatasetVersion == "default"
AdvertiseIP == "L"
NoHash == [x \in {} |-> 0]

---------------------------------------------------------------------------
(* Sequences and Go slices *)

Range(s) == {s[i] : i \in 1..Len(s)}

Min(a, b) == IF a < b THEN a ELSE b

Max(a, b) == IF a > b THEN a ELSE b

Perms(S) == {p \in [1..Cardinality(S) -> S] : \A x \in S : \E i \in DOMAIN p : p[i] = x}

\* capacity of a slice grown by n single appends (runtime growslice, doubling)
RECURSIVE AppendCap(_)
AppendCap(n) == IF n = 0 THEN 0 ELSE
                LET c == AppendCap(n - 1) IN IF n <= c THEN c ELSE IF c = 0 THEN 1 ELSE 2 * c

\* capacity of a slice decoded by encoding/json before it used reflect.Value.Grow:
\* cap + cap/2, at least 4
RECURSIVE LegacyCap(_)
LegacyCap(n) == IF n = 0 THEN 0 ELSE
                LET c == LegacyCap(n - 1) IN IF n <= c THEN c ELSE Max(4, c + (c \div 2))

\* capacity of a slice of n elements that json.Unmarshal produced
JsonCap(b, n) == IF b = "legacy" THEN LegacyCap(n) ELSE AppendCap(n)

Pad(z, n) == [i \in 1..n |-> z]

\* a slice expression that does not truncate (used to test the statements about
\* scale-down)
SliceToWhole(s, n, c, z) == [panic |-> FALSE, v |-> s]

\* s[0:n] of a Go slice s with capacity c whose spare elements are zero values z:
\* the elements up to n when n <= cap(s), a run-time panic otherwise
SliceTo(s, n, c, z) == IF n <= Len(s) THEN [panic |-> FALSE, v |-> SubSeq(s, 1, n)]
                       ELSE IF n <= c THEN [panic |-> FALSE, v |-> s \o Pad(z, n - Len(s))]
                       ELSE [panic |-> TRUE, v |-> <<>>]

\* s[n:] of a Go slice: panics when n > len(s)
SliceFrom(s, n) == IF n <= Len(s) THEN [panic |-> FALSE, v |-> SubSeq(s, n + 1, Len(s))]
                   ELSE [panic |-> TRUE, v |-> <<>>]

\* strings.SplitN(s, sep, 2) on a sequence of characters
RECURSIVE IndexOf(_, _, _)
IndexOf(s, ch, i) == IF i > Len(s) THEN 0 ELSE IF s[i] = ch THEN i ELSE IndexOf(s, ch, i + 1)

SplitN2(s, ch) == LET k == IndexOf(s, ch, 1) IN
                  IF k = 0 THEN <<s>> ELSE <<SubSeq(s, 1, k - 1), SubSeq(s, k + 1, Len(s))>>

\* strings.Join(parts, "_")
RECURSIVE Join(_, _)
Join(parts, ch) == IF Len(parts) = 0 THEN <<>>
                   ELSE IF Len(parts) = 1 THEN parts[1]
                   ELSE parts[1] \o <<ch>> \o Join(Tail(parts), ch)

\* strings.Split(s, "_"): always at least one part
RECURSIVE Split(_, _)
Split(s, ch) == LET k == IndexOf(s, ch, 1) IN
                IF k = 0 THEN <<s>>
                ELSE <<SubSeq(s, 1, k - 1)>> \o Split(SubSeq(s, k + 1, Len(s)), ch)

---------------------------------------------------------------------------
(* Dynconfig and the replicable seed peers *)

IpOf(i) == <<"A", "B", "C", "D", "E", "F">>[i]

SeedPeer(ip, port) == [Ip |-> ip, ObjectStoragePort |-> port]

\* the schedulers Dynconfig lists: one with every seed peer, one that repeats a peer,
\* lists the local daemon and a peer without object storage
Schedulers == << [SeedPeers |-> [i \in 1..MaxPeers |-> SeedPeer(IpOf(i), 80)]],
                 [SeedPeers |-> << SeedPeer(AdvertiseIP, 80),
                                   SeedPeer(IpOf(1), 80),
                                   SeedPeer(IpOf(MaxPeers + 1), 0) >>] >>

HostOf(p) == <<p.Ip, p.ObjectStoragePort>>

RECURSIVE FilterPeers(_, _)
FilterPeers(peers, hostIp) ==
    IF Len(peers) = 0 THEN <<>>
    ELSE (IF hostIp # peers[1].Ip /\ peers[1].ObjectStoragePort > 0
          THEN <<HostOf(peers[1])>> ELSE <<>>) \o FilterPeers(Tail(peers), hostIp)

RECURSIVE SeedPeerHosts(_, _)
SeedPeerHosts(schedulers, hostIp) ==
    IF Len(schedulers) = 0 THEN <<>>
    ELSE FilterPeers(schedulers[1].SeedPeers, hostIp) \o SeedPeerHosts(Tail(schedulers), hostIp)

\* pkgstrings.Unique: the distinct elements
RECURSIVE Unique(_)
Unique(s) == IF Len(s) = 0 THEN <<>>
             ELSE LET u == Unique(SubSeq(s, 1, Len(s) - 1)) IN
                  IF s[Len(s)] \in Range(u) THEN u ELSE Append(u, s[Len(s)])

\* the lists GetReplicableDataSources can return: the distinct replicable hosts in
\* any order (rand.Shuffle seeded by the clock)
GetReplicableDataSources(schedulers, hostIp) ==
    LET u == Unique(SeedPeerHosts(schedulers, hostIp)) IN
    {[i \in 1..Len(u) |-> u[p[i]]] : p \in Perms(1..Len(u))}

\* validateReplica with the comparison against the replicable count off by one
validateReplicaOffByOne(wantedReplicas, maxReplicas, schedulers, dynErr) ==
    IF wantedReplicas > maxReplicas THEN "errMaxReplicas"
    ELSE IF dynErr THEN "errDynconfig"
    ELSE IF wantedReplicas >= Len(Unique(SeedPeerHosts(schedulers, AdvertiseIP)))
         THEN "errReplicableCount" ELSE "ok"

\* validateReplica: "ok" or the error it returns
validateReplica(wantedReplicas, maxReplicas, schedulers, dynErr) ==
    IF wantedReplicas > maxReplicas THEN "errMaxReplicas"
    ELSE IF dynErr THEN "errDynconfig"
    ELSE LET replicableDataSourceCnt ==
                 Len(CHOOSE l \in GetReplicableDataSources(schedulers, AdvertiseIP) : TRUE) IN
         IF wantedReplicas > replicableDataSourceCnt THEN "errReplicableCount" ELSE "ok"

---------------------------------------------------------------------------
(* The store: hash fields, endpoint records, version records *)

UrchinEndpoint(e, path) == [endpoint |-> e, endpoint_path |-> path]

\* zero value of the Go struct, seen in the spare capacity of a decoded slice
ZeroEndpoint == UrchinEndpoint("", <<>>)

ZeroHost == <<>>

\* the replica directory key: absent, or a JSON array of hosts
NoKey == [exists |-> FALSE, hosts |-> <<>>]

HostsKey(hosts) == [exists |-> TRUE, hosts |-> hosts]

HasField(h, f) == f \in DOMAIN h

Field(h, f, zero) == IF f \in DOMAIN h THEN h[f] ELSE zero

\* HSET key field value
SetMapElement(h, f, v) == [x \in (DOMAIN h) \cup {f} |-> IF x = f THEN v ELSE h[x]]

\* the Go struct GetDataSetImpl fills: a field the hash lacks keeps its zero value
DecodeDataSet(h) ==
    [ Id               |-> Field(h, "id", ""),
      Name             |-> Field(h, "name", <<>>),
      Desc             |-> Field(h, "desc", ""),
      Replica          |-> Field(h, "replica", 0),
      CacheStrategy    |-> Field(h, "cache_strategy", ""),
      Tags             |-> IF HasField(h, "tags") THEN Split(h["tags"], "_") ELSE <<>>,
      ShareBlobSources |-> Field(h, "share_blob_sources", <<>>),
      ShareBlobCaches  |-> Field(h, "share_blob_caches", <<>>),
      \* the loop has no case for replica_state, create_time or update_time: these
      \* fields of the returned record keep the zero value of "var dataset"
      ReplicaState     |-> 0 ]

\* a variant of GetDataSetImpl for comparison: a record whose replica_state says that
\* a replica change is under way cannot be read
GetDataSetImplBusy(h, dataSetID, readErr) ==
    IF dataSetID = "" THEN [err |-> "errEmptyID", info |-> DecodeDataSet(NoHash)]
    ELSE IF readErr THEN [err |-> "errStore", info |-> DecodeDataSet(NoHash)]
    ELSE IF Field(h, "replica_state", ReplicaNoScale) # ReplicaNoScale
         THEN [err |-> "errStore", info |-> DecodeDataSet(NoHash)]
    ELSE IF Field(h, "id", "") # dataSetID THEN [err |-> "", info |-> DecodeDataSet(NoHash)]
    ELSE [err |-> "", info |-> DecodeDataSet(h)]

\* GetDataSetImpl: the error it returns ("" for nil) and the record.  When the map
\* read succeeds and holds no matching id, the error returned is that of the read:
\* nil.
GetDataSetImpl(h, dataSetID, readErr) ==
    IF dataSetID = "" THEN [err |-> "errEmptyID", info |-> DecodeDataSet(NoHash)]
    ELSE IF readErr THEN [err |-> "errStore", info |-> DecodeDataSet(NoHash)]
    ELSE IF Field(h, "id", "") # dataSetID THEN [err |-> "", info |-> DecodeDataSet(NoHash)]
    ELSE [err |-> "", info |-> DecodeDataSet(h)]

\* a variant of setReplicaState for comparison: the write is lost
setReplicaStateLost(h, state, fails) == h

\* setReplicaState: HSET replica_state
setReplicaState(h, state, fails) == IF fails THEN h ELSE SetMapElement(h, "replica_state", state)


---------------------------------------------------------------------------
(* The closure updateDataSetFunc of UpdateDataSetImpl, call by call *)

\* the arguments of UpdateDataSetImpl other than the id and shareBlobCaches
Patch(name, desc, wanted, cs, tags, sources) ==
    [name |-> name, desc |-> desc, wanted |-> wanted, cs |-> cs, tags |-> tags, sources |-> sources]

NoPatch == Patch(<<>>, "", 0, "", <<>>, <<>>)

\* the store calls of updateDataSetFunc that are issued for these arguments
PatchOps(p, caches) ==
    (IF Len(p.name) > 0 THEN {"name"} ELSE {}) \cup
    (IF p.desc # "" THEN {"desc"} ELSE {}) \cup
    (IF p.wanted > 0 THEN {"replica"} ELSE {}) \cup
    (IF p.cs # "" THEN {"cache_strategy"} ELSE {}) \cup
    (IF Len(p.tags) > 0 THEN {"tagsGet", "tagsDel", "tags", "tagsKey"} ELSE {}) \cup
    (IF Len(p.sources) > 0 THEN {"share_blob_sources"} ELSE {}) \cup
    (IF Len(caches) > 0 THEN {"share_blob_caches"} ELSE {}) \cup
    {"update_time"}

\* the store calls of updateDataSetFunc whose failure it returns (the failures of
\* the others are ignored or logged)
FailOps(p, caches) == PatchOps(p, caches) \ {"tagsDel", "update_time"}

\* the store calls of one run of updateDataSetFunc, in the order it makes them
PatchCalls(p, caches) ==
    SelectSeq(<<"name", "desc", "replica", "cache_strategy", "tagsGet", "tagsDel", "tags",
                "tagsKey", "share_blob_sources", "share_blob_caches", "update_time">>,
              LAMBDA op : op \in PatchOps(p, caches))

\* what one run of updateDataSetFunc works on: the hash, the tags keys, the value
\* GetMapElement(tags) returned to it, and whether the call returned an error
PatchState(h, tk, oldTags) == [h |-> h, tk |-> tk, oldTags |-> oldTags, err |-> FALSE]

\* one store call of updateDataSetFunc that the store accepts.  p holds the captured
\* arguments, caches the captured shareBlobCaches at the time of the call.
\* GetMapElement(tags) returns an error when the hash has no such field.
updateDataSetFunc(s, op, p, caches, t) ==
    CASE op = "name" -> [s EXCEPT !.h = SetMapElement(s.h, "name", p.name)]
      [] op = "desc" -> [s EXCEPT !.h = SetMapElement(s.h, "desc", p.desc)]
      [] op = "replica" -> [s EXCEPT !.h = SetMapElement(s.h, "replica", p.wanted)]
      [] op = "cache_strategy" -> [s EXCEPT !.h = SetMapElement(s.h, "cache_strategy", p.cs)]
      [] op = "tagsGet" -> IF HasField(s.h, "tags") THEN [s EXCEPT !.oldTags = s.h["tags"]]
                           ELSE [s EXCEPT !.err = TRUE]
      [] op = "tagsDel" -> [s EXCEPT !.tk = s.tk \ {s.oldTags}]
      [] op = "tags" -> [s EXCEPT !.h = SetMapElement(s.h, "tags", Join(p.tags, "_"))]
      [] op = "tagsKey" -> [s EXCEPT !.tk = s.tk \cup {Join(p.tags, "_")}]
      [] op = "share_blob_sources" ->
             [s EXCEPT !.h = SetMapElement(s.h, "share_blob_sources", p.sources)]
      [] op = "share_blob_caches" ->
             [s EXCEPT !.h = SetMapElement(s.h, "share_blob_caches", caches)]
      [] op = "update_time" -> [s EXCEPT !.h = SetMapElement(s.h, "update_time", t)]

---------------------------------------------------------------------------
(* Version records (package urchin_dataset_vesion) and their scale functions *)

\* MetaSources and MetaCaches are texts.  A text that is a JSON list is held as the
\* list it encodes; NotJSON is the empty text, which json.Unmarshal rejects
\* ("unexpected end of JSON input").
NotJSON == <<[text |-> ""]>>

\* json.Unmarshal of a text into a slice of UrchinEndpoint
Unmarshal(text) == IF text = NotJSON THEN [err |-> TRUE, v |-> <<>>] ELSE [err |-> FALSE, v |-> text]

VersionInfo(sources, caches) == [meta_sources |-> sources, meta_caches |-> caches]

NoVersions == [x \in {} |-> 0]

SetVersion(vs, id, v) == [x \in (DOMAIN vs) \cup {id} |-> IF x = id THEN v ELSE vs[x]]

\* CreateDataSetVersionImpl with the ID, Name and CreateAt that CreateDataSet passes:
\* MetaSources and MetaCaches of the version are the empty text
CreateDataSetVersionImpl(vs, id) == SetVersion(vs, id, VersionInfo(NotJSON, NotJSON))

\* UpdateDataSetVersionImpl with only MetaCaches set: the other fields of the stored
\* version stay
UpdateDataSetVersionImpl(vs, id, metaCaches) ==
    SetVersion(vs, id, [Field(vs, id, VersionInfo(NotJSON, NotJSON)) EXCEPT !.meta_caches = metaCaches])

\* the orders ListAllDataSetVersions can return the versions in
VersionOrders(vs) == LET D == DOMAIN vs IN
                     {[i \in 1..Cardinality(D) |-> o[i]] : o \in Perms(D)}

\* what ListAllDataSetVersions returns: the records of the versions at the time of
\* the call, in the order of the listing
ListAllDataSetVersions(vs, order) == [i \in 1..Len(order) |-> [id |-> order[i], info |-> vs[order[i]]]]

\* path.Split: the part after the final slash
RECURSIVE LastIndexOf(_, _, _)
LastIndexOf(s, ch, i) == IF i = 0 THEN 0 ELSE IF s[i] = ch THEN i ELSE LastIndexOf(s, ch, i - 1)

PathBase(s) == SubSeq(s, LastIndexOf(s, "/", Len(s)) + 1, Len(s))

\* the elements of a path that path.Clean keeps, from element i of parts on; out holds
\* the elements kept so far.  An empty element and "." are dropped; ".." removes the
\* element before it, is dropped at the root and is kept at the start of a path that
\* is not rooted.
RECURSIVE CleanParts(_, _, _, _)
CleanParts(parts, i, out, rooted) ==
    IF i > Len(parts) THEN out
    ELSE LET e == parts[i] IN
         IF e = <<>> \/ e = <<".">> THEN CleanParts(parts, i + 1, out, rooted)
         ELSE IF e = <<".", ".">>
         THEN IF Len(out) > 0 /\ out[Len(out)] # <<".", ".">>
              THEN CleanParts(parts, i + 1, SubSeq(out, 1, Len(out) - 1), rooted)
              ELSE IF rooted THEN CleanParts(parts, i + 1, out, rooted)
              ELSE CleanParts(parts, i + 1, Append(out, e), rooted)
         ELSE CleanParts(parts, i + 1, Append(out, e), rooted)

\* path.Clean: the shortest path that names the same place; "." for the empty one
PathClean(s) ==
    LET rooted == Len(s) > 0 /\ s[1] = "/"
        kept == Join(CleanParts(Split(s, "/"), 1, <<>>, rooted), "/")
    IN  IF rooted THEN <<"/">> \o kept
        ELSE IF Len(kept) = 0 THEN <<".">> ELSE kept

\* path.Join of two elements: empty elements are ignored, the others are joined with
\* a slash and the result is cleaned; the empty path when both are empty
PathJoin(a, b) == IF Len(a) = 0 /\ Len(b) = 0 THEN <<>>
                  ELSE IF Len(a) = 0 THEN PathClean(b)
                  ELSE IF Len(b) = 0 THEN PathClean(a)
                  ELSE PathClean(a \o <<"/">> \o b)

\* the loop of scaleDownDatasetVersionInfo from entry vi of the listing on, up to its
\* next store call: a version whose MetaCaches is not JSON ends it with the error of
\* json.Unmarshal; a version without cache entries is passed over; the slice
\* expression of a version with fewer entries than its capacity allows panics
RECURSIVE scaleDownDatasetVersionInfo(_, _, _, _)
scaleDownDatasetVersionInfo(listed, vi, wantedReplica, b) ==
    IF vi > Len(listed) THEN [stop |-> "end", vi |-> vi, metaCaches |-> <<>>]
    ELSE LET u == Unmarshal(listed[vi].info.meta_caches)
             metaCaches == u.v
             cut == SliceTo(metaCaches, wantedReplica, JsonCap(b, Len(metaCaches)), ZeroEndpoint)
         IN  IF u.err THEN [stop |-> "errUnmarshal", vi |-> vi, metaCaches |-> <<>>]
             ELSE IF Len(metaCaches) <= 0
             THEN scaleDownDatasetVersionInfo(listed, vi + 1, wantedReplica, b)
             ELSE IF cut.panic THEN [stop |-> "panic", vi |-> vi, metaCaches |-> <<>>]
             ELSE [stop |-> "update", vi |-> vi, metaCaches |-> cut.v]

\* the cache entries a version gets: the object name of its first source appended
VersionCaches(scaleUpCachesEndpoint, objectName) ==
    [k \in 1..Len(scaleUpCachesEndpoint) |->
        UrchinEndpoint(scaleUpCachesEndpoint[k].endpoint,
                       PathJoin(scaleUpCachesEndpoint[k].endpoint_path, objectName))]

\* the loop of scaleUpDatasetVersionInfo at entry vi of the listing, up to its next
\* store call: a version whose MetaCaches or MetaSources is not JSON ends it with
\* the error of json.Unmarshal, a version without a source with an error of its own
scaleUpDatasetVersionInfo(listed, vi, scaleUpCachesEndpoint) ==
    IF vi > Len(listed) THEN [stop |-> "end", vi |-> vi, metaCaches |-> <<>>]
    ELSE LET c == Unmarshal(listed[vi].info.meta_caches)
             s == Unmarshal(listed[vi].info.meta_sources)
             metaSources == s.v
             metaCaches == c.v
         IN  IF c.err THEN [stop |-> "errUnmarshalCaches", vi |-> vi, metaCaches |-> <<>>]
             ELSE IF s.err THEN [stop |-> "errUnmarshalSources", vi |-> vi, metaCaches |-> <<>>]
             ELSE IF Len(metaSources) < 1
             THEN [stop |-> "errMetaSources", vi |-> vi, metaCaches |-> <<>>]
             ELSE [stop |-> "update", vi |-> vi,
                   metaCaches |-> metaCaches \o VersionCaches(scaleUpCachesEndpoint,
                                                PathBase(metaSources[1].endpoint_path))]

---------------------------------------------------------------------------
(* Replica host selection *)

containsString(src, dest) == \E i \in 1..Len(src) : src[i] = dest

RECURSIVE differenceSlice(_, _)
differenceSlice(src, dest) ==
    IF Len(src) = 0 THEN <<>>
    ELSE (IF ~containsString(dest, src[1]) THEN <<src[1]>> ELSE <<>>)
         \o differenceSlice(Tail(src), dest)

\* Exists of getReplicaHosts: the error of the store, or the error of the missing
\* key
getReplicaHostsExists(key, fails) ==
    IF fails THEN "errStore"
    ELSE IF ~key.exists THEN "errNoReplicaKey"
    ELSE ""

\* Get and json.Unmarshal of getReplicaHosts, after Exists has returned true: the
\* list at the time of Get; Get of a key that is gone returns an error
getReplicaHosts(key, fails) ==
    IF fails \/ ~key.exists THEN [err |-> "errStore", hosts |-> <<>>]
    ELSE [err |-> "", hosts |-> key.hosts]

\* selectScaleUpReplicaHosts from the Get of getReplicaHosts on.  replicable is the
\* list GetReplicableDataSources returned.  The result slice of differenceSlice was
\* grown by append.
selectScaleUpReplicaHosts(key, wantedReplica, nowReplica, replicable, dirFails, dynFails) ==
    LET r == getReplicaHosts(key, dirFails)
        d == differenceSlice(replicable, r.hosts)
        sel == SliceTo(d, wantedReplica - nowReplica, AppendCap(Len(d)), ZeroHost)
    IN  IF r.err # "" THEN [err |-> r.err, replicaHosts |-> <<>>, scaleUpReplicas |-> <<>>]
        ELSE IF dynFails THEN [err |-> "errDynconfig", replicaHosts |-> <<>>, scaleUpReplicas |-> <<>>]
        ELSE IF wantedReplica > Len(replicable)
             THEN [err |-> "errReplicableCount", replicaHosts |-> <<>>, scaleUpReplicas |-> <<>>]
        ELSE IF sel.panic THEN [err |-> "panic", replicaHosts |-> <<>>, scaleUpReplicas |-> <<>>]
        ELSE [err |-> "", replicaHosts |-> r.hosts, scaleUpReplicas |-> sel.v]

\* the list selectScaleDownReplicaHosts writes: replicaHosts[0:wantedReplica] of the
\* list json.Unmarshal decoded
ScaleDownKeep(replicaHosts, wantedReplica, b) ==
    SliceTo(replicaHosts, wantedReplica, JsonCap(b, Len(replicaHosts)), ZeroHost)

\* a selection that hands out the hosts to destroy although the write of the
\* truncated list failed
selectScaleDownUnwritten(key, replicaHosts, wantedReplica, writeFails, b) ==
    LET keep == ScaleDownKeep(replicaHosts, wantedReplica, b)
        drop == SliceFrom(replicaHosts, wantedReplica)
    IN  IF drop.panic THEN [err |-> "panic", key |-> key, hosts |-> <<>>]
        ELSE [err |-> "", key |-> IF writeFails THEN key ELSE HostsKey(keep.v), hosts |-> drop.v]

\* selectScaleDownReplicaHosts after getReplicaHosts has returned replicaHosts and
\* the slice to keep was taken: the directory key afterwards, the hosts to destroy
\* and the error.  The truncated list is written before the tail is taken.
selectScaleDownReplicaHosts(key, replicaHosts, wantedReplica, writeFails, b) ==
    LET keep == ScaleDownKeep(replicaHosts, wantedReplica, b)
        drop == SliceFrom(replicaHosts, wantedReplica)
    IN  IF writeFails THEN [err |-> "errStore", key |-> key, hosts |-> <<>>]
        ELSE IF drop.panic THEN [err |-> "panic", key |-> HostsKey(keep.v), hosts |-> <<>>]
        ELSE [err |-> "", key |-> HostsKey(keep.v), hosts |-> drop.v]

\* updateRedisReplicaInfo
updateRedisReplicaInfo(key, newReplicaHosts, fails) == IF fails THEN key ELSE HostsKey(newReplicaHosts)

---------------------------------------------------------------------------
(* History *)

\* n more calls fail in this step
Charge(n) == faults + n <= MaxFaults /\ faults' = faults + n

B(x) == IF x THEN 1 ELSE 0

\* the record of the most recent step: the operation, the branch it is in, the call
\* it made or the point it returned at, the status and the error it answered with,
\* and the local variables of the request or goroutine that took the step
Last(op, path, exit, code, err) ==
    [op |-> op, path |-> path, exit |-> exit, code |-> code, err |-> err, selErr |-> "",
     setState |-> FALSE, resetIssued |-> FALSE, resetOk |-> FALSE,
     wanted |-> 0, replica |-> 0, H |-> <<>>, C |-> <<>>, N |-> <<>>, got |-> <<>>,
     destroys |-> <<>>, destroyFailed |-> {}, state |-> 0, list |-> <<>>, orig |-> NoHash,
     attempt |-> 0, k |-> 0, sources |-> <<>>, phases |-> {}, retry |-> <<0, 0>>,
     listed |-> <<>>, form |-> <<>>, reply |-> ""]

\* the process has ended by a panic outside a handler
PanicCall == [fn |-> "panic", args |-> <<>>, done |-> TRUE, ret |-> ""]

Crashed == call = PanicCall

RemoveAt(seq, k) == SubSeq(seq, 1, k - 1) \o SubSeq(seq, k + 1, Len(seq))

\* history: a request that changes the dataset begins, so that no request or
\* goroutine in flight has the dataset to itself any more
Untracked(seq) ==
    [i \in 1..Len(seq) |->
        IF "orig" \in DOMAIN seq[i] THEN [seq[i] EXCEPT !.orig = NoHash] ELSE seq[i]]

\* a request begins and stays in flight after its first call
Begun(r, rec) ==
    /\ requests' = Append(Untracked(requests), r)
    /\ last' = [rec EXCEPT !.k = Len(requests) + 1]

\* a request is answered at its first call
Answered(rec) ==
    /\ requests' = Untracked(requests)
    /\ last' = [rec EXCEPT !.k = Len(requests) + 1]

\* the request at position k goes on after a call
Continue(k, r, rec) ==
    /\ requests' = [requests EXCEPT ![k] = r]
    /\ last' = [rec EXCEPT !.k = k]

\* the request at position k is answered
Return(k, rec) ==
    /\ requests' = RemoveAt(requests, k)
    /\ last' = [rec EXCEPT !.k = k]

\* no request for the dataset id is in flight
NoRequestFor(fns) == \A i \in 1..Len(requests) : requests[i].fn \notin fns

---------------------------------------------------------------------------
(* UpdateDataSetImpl, as the handler UpdateDataSet calls it *)

\* a goroutine whose first seed-peer call was made before the caller was answered
WorkerAfterFirstCall(pc, i, attempt, got, p, replicaHosts, scaleUpReplicas, oldCaches) ==
    [pc |-> "poll", i |-> i, attempt |-> attempt, got |-> got, p |-> p,
     E |-> replicaHosts, N |-> scaleUpReplicas, old |-> oldCaches,
     ops |-> <<>>, j |-> 1, oldTags |-> <<>>, listed |-> <<>>, vi |-> 1,
     path |-> "", exit |-> "", err |-> "", orig |-> NoHash, reply |-> ""]

\* a scale-up goroutine: its position, the variables its closure captured and its
\* local variables
Worker(pc, i, attempt, got, p, replicaHosts, scaleUpReplicas, oldCaches) ==
    [pc |-> pc, i |-> i, attempt |-> attempt, got |-> got, p |-> p,
     E |-> replicaHosts, N |-> scaleUpReplicas, old |-> oldCaches,
     ops |-> <<>>, j |-> 1, oldTags |-> <<>>, listed |-> <<>>, vi |-> 1,
     path |-> "", exit |-> "", err |-> "", orig |-> NoHash, reply |-> ""]

\* a condition that sends every update with a replica value to the scaling branches
ReplicaGiven(wantedReplica, oldReplica) == wantedReplica > 0

\* wantedReplica > 0 && oldDatasetInfo.Replica != wantedReplica
ReplicaChanges(wantedReplica, oldReplica) == wantedReplica > 0 /\ oldReplica # wantedReplica

\* a replica change that does not look at the sources of the record
SourceCheckSkipped(shareBlobSources) == ""

\* the checks before a replica change: the record has a source, and the path of its
\* first source splits at "." into a bucket and an object
SourceCheck(shareBlobSources) ==
    IF Len(shareBlobSources) < 1 THEN "errSources"
    ELSE IF Len(SplitN2(shareBlobSources[1].endpoint_path, ".")) < 2 THEN "errBucket"
    ELSE ""

\* the status the handler UpdateDataSet answers with
UpdateStatus(err) == IF err = "" THEN 200 ELSE 500

\* a call of UpdateDataSetImpl in flight: its arguments p, the record old that
\* GetDataSetImpl returned, the branch it took, and its local variables
UpdateRequest(p, old, path, orig, retry) ==
    [fn |-> "UpdateDataSet", pc |-> IF path = "patch" THEN "patch" ELSE "state",
     p |-> p, old |-> old, path |-> path, exit |-> "", err |-> "", selErr |-> "",
     setState |-> FALSE, H |-> <<>>, drop |-> <<>>, caches |-> <<>>,
     ops |-> PatchCalls(p, <<>>), i |-> 1, oldTags |-> <<>>, listed |-> <<>>, vi |-> 1,
     di |-> 1, destroys |-> <<>>, dfail |-> {}, phases |-> {}, orig |-> orig, retry |-> retry]

\* what a step of a call of UpdateDataSetImpl records
UpdateLast(op, r, exit, err) ==
    [Last(op, r.path, exit, IF op = "update" THEN UpdateStatus(err) ELSE 0, err)
     EXCEPT !.selErr = r.selErr, !.setState = r.setState,
            !.wanted = r.p.wanted, !.replica = r.old.Replica, !.H = r.H,
            !.C = r.old.ShareBlobCaches, !.sources = r.old.ShareBlobSources,
            !.destroys = r.destroys, !.destroyFailed = r.dfail, !.phases = r.phases,
            !.orig = r.orig, !.retry = r.retry, !.listed = r.listed]

\* history: the record a scale-down starts from when nothing else is in flight, and
\* the record the scale-up that follows such a scale-down hands on
Origin(path) ==
    IF path = "down" /\ workers = <<>> /\ requests = <<>>
       /\ Field(hash, "replica_state", ReplicaNoScale) = ReplicaNoScale
    THEN hash
    ELSE IF path = "up" /\ last.op = "update" /\ last.path = "down" /\ last.exit = "ok"
            /\ workers = <<>> /\ requests = <<>>
    THEN last.orig
    ELSE NoHash

\* history: the wanted count of the goroutine that failed just before this call, with
\* nothing else in flight and NoScale stored, and the failures counted until then
RetryOf ==
    IF last.op = "worker" /\ last.exit = "failed" /\ workers = <<>> /\ requests = <<>>
       /\ Field(hash, "replica_state", ReplicaNoScale) = ReplicaNoScale
    THEN <<last.wanted, faults>>
    ELSE <<0, 0>>

\* the branch UpdateDataSetImpl takes for the record it read, or the error it
\* returns before it takes one
UpdatePath(p, old) ==
    IF ~ReplicaChanges(p.wanted, old.Replica) THEN "patch"
    ELSE IF SourceCheck(old.ShareBlobSources) # "" THEN SourceCheck(old.ShareBlobSources)
    ELSE IF p.wanted < old.Replica THEN "down"
    ELSE "up"

Replicable == GetReplicableDataSources(Schedulers, AdvertiseIP)

\* the host selection of a scale-up to wanted would return hosts for the directory
\* as it is now
WouldSpawn(wanted, nowReplica) ==
    \E perm \in Replicable :
        selectScaleUpReplicaHosts(replicaKey, wanted, nowReplica, perm, FALSE, FALSE).err = ""

\* PATCH /api/v1/dataset/:datasetid arrives: GetDataSetImpl and the checks that
\* follow it.  limit bounds the goroutines started in one behaviour: a request that
\* would start one more is not taken up.  inFlight bounds the requests in flight,
\* calls the calls of UpdateDataSetImpl in one behaviour.
UpdateBegin(p, readErr, limit, inFlight, calls) ==
    LET g == GetDataSetImpl(hash, DataSetID, readErr)
        path == UpdatePath(p, g.info)
        r == UpdateRequest(p, g.info, path, Origin(path), RetryOf)
    IN  /\ ~Crashed
        /\ updates < calls
        /\ updates' = updates + 1
        /\ Charge(B(readErr))
        /\ Len(requests) < inFlight
        /\ NoRequestFor({"CreateDataSet"})
        /\ (g.err = "" /\ path = "up" /\ WouldSpawn(p.wanted, g.info.Replica)) => started < limit
        /\ workers' = Untracked(workers)
        /\ IF g.err # ""
           THEN Answered(UpdateLast("update", [r EXCEPT !.path = "get"], "get", g.err))
           ELSE IF path = "errSources"
           THEN Answered(UpdateLast("update", [r EXCEPT !.path = "adjust"], "sources", path))
           ELSE IF path = "errBucket"
           THEN Answered(UpdateLast("update", [r EXCEPT !.path = "adjust"], "bucket", path))
           ELSE Begun(r, UpdateLast("call", r, "get", ""))
        /\ UNCHANGED <<build, hash, zset, nameKeys, tagsKeys, replicaKey, versions, started,
                       idUsed, now, call, tmpSets>>

\* the deferred setReplicaState(dataSetID, ReplicaNoScale) of the scale-down branch is
\* next: the branch returns err, or panics
DownExit(r, exit, err) == [r EXCEPT !.pc = "reset", !.exit = exit, !.err = err]

\* setReplicaState(dataSetID, ReplicaScaleDown) or setReplicaState(dataSetID,
\* ReplicaScaleUP) at the start of a replica change
UpdateState(k, fails) ==
    LET r == requests[k] IN
    /\ r.fn = "UpdateDataSet" /\ r.pc = "state"
    /\ Charge(B(fails))
    /\ hash' = setReplicaState(hash, IF r.path = "down" THEN ReplicaScaleDown ELSE ReplicaScaleUP,
                               fails)
    /\ IF fails THEN Return(k, UpdateLast("update", r, "state", "errStore"))
       ELSE LET r2 == [r EXCEPT !.setState = TRUE, !.pc = "dirExists"]
            IN  Continue(k, r2, UpdateLast("call", r2, "state", ""))
    /\ UNCHANGED <<build, zset, nameKeys, tagsKeys, replicaKey, versions, workers, started,
                   idUsed, now, call, tmpSets, updates>>

\* Exists of getReplicaHosts, in selectScaleDownReplicaHosts and in
\* selectScaleUpReplicaHosts
UpdateDirExists(k, fails) ==
    LET r == requests[k]
        err == getReplicaHostsExists(replicaKey, fails)
        r2 == IF r.path = "down"
              THEN (IF err # "" THEN DownExit(r, "select", err) ELSE [r EXCEPT !.pc = "dirRead"])
              ELSE (IF err # "" THEN [r EXCEPT !.selErr = err, !.pc = "unset"]
                    ELSE [r EXCEPT !.pc = "select"])
    IN  /\ r.fn = "UpdateDataSet" /\ r.pc = "dirExists"
        /\ Charge(B(fails))
        /\ Continue(k, r2, UpdateLast("call", r2, "dirExists", err))
        /\ UNCHANGED <<build, hash, zset, nameKeys, tagsKeys, replicaKey, versions, workers,
                       started, idUsed, now, call, tmpSets, updates>>

\* Get of getReplicaHosts in selectScaleDownReplicaHosts, and
\* replicaHosts[0:wantedReplica]
UpdateDirRead(k, fails) ==
    LET r == requests[k]
        g == getReplicaHosts(replicaKey, fails)
        r2 == IF g.err # "" THEN DownExit(r, "select", g.err)
              ELSE IF ScaleDownKeep(g.hosts, r.p.wanted, build).panic
              THEN DownExit([r EXCEPT !.H = g.hosts], "select", "panic")
              ELSE [r EXCEPT !.H = g.hosts, !.pc = "dirWrite"]
    IN  /\ r.fn = "UpdateDataSet" /\ r.pc = "dirRead"
        /\ Charge(B(fails))
        /\ Continue(k, r2, UpdateLast("call", r2, "dirRead", g.err))
        /\ UNCHANGED <<build, hash, zset, nameKeys, tagsKeys, replicaKey, versions, workers,
                       started, idUsed, now, call, tmpSets, updates>>

\* Set of the truncated list in selectScaleDownReplicaHosts, replicaHosts[wantedReplica:],
\* and oldDatasetInfo.ShareBlobCaches[0:wantedReplica]
UpdateDirWrite(k, fails) ==
    LET r == requests[k]
        sel == selectScaleDownReplicaHosts(replicaKey, r.H, r.p.wanted, fails, build)
        cut == SliceTo(r.old.ShareBlobCaches, r.p.wanted,
                       JsonCap(build, Len(r.old.ShareBlobCaches)), ZeroEndpoint)
        w == [r EXCEPT !.phases = IF fails THEN @ ELSE @ \cup {"dir"}]
        r2 == IF sel.err # "" THEN DownExit(w, "select", sel.err)
              ELSE IF cut.panic THEN DownExit([w EXCEPT !.drop = sel.hosts], "caches", "panic")
              ELSE [w EXCEPT !.drop = sel.hosts, !.caches = cut.v,
                             !.ops = PatchCalls(r.p, cut.v), !.i = 1, !.pc = "patch"]
    IN  /\ r.fn = "UpdateDataSet" /\ r.pc = "dirWrite"
        /\ Charge(B(fails))
        /\ replicaKey' = sel.key
        /\ Continue(k, r2, UpdateLast("call", r2, "dirWrite", sel.err))
        /\ UNCHANGED <<build, hash, zset, nameKeys, tagsKeys, versions, workers, started,
                       idUsed, now, call, tmpSets, updates>>

\* the destroy loop is next, or the return when there is no host to destroy
DownDestroys(r) ==
    IF Len(r.drop) = 0 THEN DownExit([r EXCEPT !.phases = @ \cup {"destroys"}], "ok", "")
    ELSE [r EXCEPT !.pc = "destroy", !.di = 1]

\* scaleDownDatasetVersionInfo goes on from entry r.vi of its listing
DownVersions(r) ==
    LET n == scaleDownDatasetVersionInfo(r.listed, r.vi, r.p.wanted, build) IN
    IF n.stop = "panic" THEN DownExit(r, "version", "panic")
    ELSE IF n.stop = "errUnmarshal" THEN DownExit(r, "version", "errUnmarshal")
    ELSE IF n.stop = "end" THEN DownDestroys([r EXCEPT !.phases = @ \cup {"versions"}])
    ELSE [r EXCEPT !.vi = n.vi, !.pc = "version"]

\* one store call of updateDataSetFunc, in the plain branch and in the scale-down.
\* The error of Del of the old tags key and of SetMapElement(update_time) is
\* dropped: the call that failed wrote nothing and the closure goes on.
UpdatePatch(k, fails) ==
    LET r == requests[k]
        op == r.ops[r.i]
        s == IF fails /\ op \notin FailOps(r.p, r.caches) THEN PatchState(hash, tagsKeys, r.oldTags)
             ELSE updateDataSetFunc(PatchState(hash, tagsKeys, r.oldTags), op, r.p, r.caches, now)
        failed == (fails /\ op \in FailOps(r.p, r.caches)) \/ s.err
        r2 == IF failed
              THEN (IF r.path = "down" THEN DownExit(r, "patch", "errStore") ELSE r)
              ELSE IF r.i < Len(r.ops) THEN [r EXCEPT !.i = r.i + 1, !.oldTags = s.oldTags]
              ELSE [r EXCEPT !.i = r.i + 1, !.phases = @ \cup {"record"}, !.pc = "list"]
    IN  /\ r.fn = "UpdateDataSet" /\ r.pc = "patch"
        /\ Charge(B(fails))
        /\ hash' = IF failed THEN hash ELSE s.h
        /\ tagsKeys' = IF failed THEN tagsKeys ELSE s.tk
        /\ IF r.path = "patch" /\ failed
           THEN Return(k, UpdateLast("update", r, "patch", "errStore"))
           ELSE IF r.path = "patch" /\ r.i = Len(r.ops)
           THEN Return(k, UpdateLast("update", r2, "ok", ""))
           ELSE Continue(k, r2, UpdateLast("call", r2, op, IF failed THEN "errStore" ELSE ""))
        /\ UNCHANGED <<build, zset, nameKeys, replicaKey, versions, workers, started,
                       idUsed, now, call, tmpSets, updates>>

\* ListAllDataSetVersions of scaleDownDatasetVersionInfo: an error ends the branch, a
\* dataset without versions is passed over
UpdateList(k, order, fails) ==
    LET r == requests[k]
        r2 == IF fails THEN DownExit(r, "version", "errStore")
              ELSE DownVersions([r EXCEPT !.listed = ListAllDataSetVersions(versions, order),
                                          !.vi = 1])
    IN  /\ r.fn = "UpdateDataSet" /\ r.pc = "list"
        /\ Charge(B(fails))
        /\ Continue(k, r2, UpdateLast("call", r2, "list", IF fails THEN "errStore" ELSE ""))
        /\ UNCHANGED <<build, hash, zset, nameKeys, tagsKeys, replicaKey, versions, workers,
                       started, idUsed, now, call, tmpSets, updates>>

\* UpdateDataSetVersionImpl of scaleDownDatasetVersionInfo for entry r.vi of its listing
UpdateVersion(k, fails) ==
    LET r == requests[k]
        n == scaleDownDatasetVersionInfo(r.listed, r.vi, r.p.wanted, build)
        r2 == IF fails THEN DownExit(r, "version", "errStore")
              ELSE DownVersions([r EXCEPT !.vi = r.vi + 1])
    IN  /\ r.fn = "UpdateDataSet" /\ r.pc = "version"
        /\ Charge(B(fails))
        /\ versions' = IF fails THEN versions
                       ELSE UpdateDataSetVersionImpl(versions, r.listed[r.vi].id, n.metaCaches)
        /\ Continue(k, r2, UpdateLast("call", r2, "version", IF fails THEN "errStore" ELSE ""))
        /\ UNCHANGED <<build, hash, zset, nameKeys, tagsKeys, replicaKey, workers, started,
                       idUsed, now, call, tmpSets, updates>>

\* a destroy loop that gives up at the first host whose destroy fails
destroyUntilFailure(hosts, i, failed) == IF failed THEN Len(hosts) + 1 ELSE i + 1

\* the loop over ScaleDownReplicaHosts after destroySeedPeerDataset was called for
\* hosts[i]: an error is logged and the loop continues with the next host
destroyEach(hosts, i, failed) == i + 1

\* destroySeedPeerDataset for one host of ScaleDownReplicaHosts
UpdateDestroy(k, fails) ==
    LET r == requests[k]
        next == destroyEach(r.drop, r.di, fails)
        d == [r EXCEPT !.destroys = Append(@, r.drop[r.di]),
                       !.dfail = IF fails THEN @ \cup {r.di} ELSE @,
                       !.di = next]
        r2 == IF next > Len(r.drop) THEN DownExit([d EXCEPT !.phases = @ \cup {"destroys"}], "ok", "")
              ELSE d
    IN  /\ r.fn = "UpdateDataSet" /\ r.pc = "destroy"
        /\ Charge(B(fails))
        /\ Continue(k, r2, UpdateLast("call", r2, "destroy", IF fails THEN "errSeedPeer" ELSE ""))
        /\ UNCHANGED <<build, hash, zset, nameKeys, tagsKeys, replicaKey, versions, workers,
                       started, idUsed, now, call, tmpSets, updates>>

\* the deferred setReplicaState(dataSetID, ReplicaNoScale) of the scale-down branch:
\* it runs on every way out, and its error is logged only
DeferredReset(h, err, resetFails) == setReplicaState(h, ReplicaNoScale, resetFails)

\* the scale-down branch returns: the deferred reset, then the answer
UpdateReset(k, resetFails) ==
    LET r == requests[k] IN
    /\ r.fn = "UpdateDataSet" /\ r.pc = "reset"
    /\ Charge(B(resetFails))
    /\ hash' = DeferredReset(hash, r.err, resetFails)
    /\ Return(k, [UpdateLast("update", r, r.exit, r.err)
                  EXCEPT !.resetIssued = TRUE, !.resetOk = ~resetFails])
    /\ UNCHANGED <<build, zset, nameKeys, tagsKeys, replicaKey, versions, workers, started,
                   idUsed, now, call, tmpSets, updates>>

\* the error the scale-up branch returns after a failed host selection: err is
\* assigned the result of the reset before it is returned
SelectFailedReturn(selErr, resetFails) == IF resetFails THEN "errStore" ELSE ""

\* selectScaleUpReplicaHosts of the scale-up branch from the Get of getReplicaHosts
\* on; when it returns the hosts the goroutine is started and the request is
\* answered.  limit bounds the goroutines started in one behaviour.
UpdateSelect(k, perm, dirFails, dynFails, limit) ==
    LET r == requests[k]
        sel == selectScaleUpReplicaHosts(replicaKey, r.p.wanted, r.old.Replica, perm,
                                         dirFails, dynFails)
        r2 == [r EXCEPT !.H = getReplicaHosts(replicaKey, dirFails).hosts, !.selErr = sel.err]
    IN  /\ r.fn = "UpdateDataSet" /\ r.pc = "select"
        /\ Charge(B(dirFails) + B(dynFails))
        /\ sel.err = "" => started < limit
        /\ started' = IF sel.err = "" THEN started + 1 ELSE started
        /\ workers' = IF sel.err = ""
                      THEN Append(workers,
                                  [Worker("cache", 1, 1, <<>>, r.p, sel.replicaHosts,
                                          sel.scaleUpReplicas, r.old.ShareBlobCaches)
                                   EXCEPT !.orig = r.orig])
                      ELSE workers
        /\ IF sel.err = "panic" THEN Return(k, UpdateLast("update", r2, "select", "panic"))
           ELSE IF sel.err # ""
           THEN Continue(k, [r2 EXCEPT !.pc = "unset"], UpdateLast("call", r2, "select", sel.err))
           ELSE Return(k, UpdateLast("update", r2, "spawn", ""))
        /\ UNCHANGED <<build, hash, zset, nameKeys, tagsKeys, replicaKey, versions,
                       idUsed, now, call, tmpSets, updates>>

\* setReplicaState(dataSetID, ReplicaNoScale) after a failed host selection, then the
\* answer
UpdateUnset(k, resetFails) ==
    LET r == requests[k] IN
    /\ r.fn = "UpdateDataSet" /\ r.pc = "unset"
    /\ Charge(B(resetFails))
    /\ hash' = setReplicaState(hash, ReplicaNoScale, resetFails)
    /\ Return(k, [UpdateLast("update", r, "select", SelectFailedReturn(r.selErr, resetFails))
                  EXCEPT !.resetIssued = TRUE, !.resetOk = ~resetFails])
    /\ UNCHANGED <<build, zset, nameKeys, tagsKeys, replicaKey, versions, workers, started,
                   idUsed, now, call, tmpSets, updates>>

\* the seed peers in the order the Dynconfig lists them
UploadOrder == Unique(SeedPeerHosts(Schedulers, AdvertiseIP))

\* one step of a call of UpdateDataSetImpl in flight
UpdateStep(k, limit) ==
    \/ \E fails \in BOOLEAN :
          \/ UpdateState(k, fails)
          \/ UpdateDirExists(k, fails)
          \/ UpdateDirRead(k, fails)
          \/ UpdateDirWrite(k, fails)
          \/ UpdatePatch(k, fails)
          \/ UpdateVersion(k, fails)
          \/ UpdateDestroy(k, fails)
          \/ UpdateReset(k, fails)
          \/ UpdateUnset(k, fails)
          \/ \E order \in VersionOrders(versions) : UpdateList(k, order, fails)
    \/ \E perm \in Replicable : UpdateSelect(k, perm, FALSE, FALSE, limit)
    \/ UpdateSelect(k, UploadOrder, TRUE, FALSE, limit)
    \/ UpdateSelect(k, UploadOrder, FALSE, TRUE, limit)

---------------------------------------------------------------------------
(* CreateDataSet *)

\* the values CreateDataSet writes with SetMapElements
CreateValues(dataSetID, name, desc, replica, cs, tags, curTime) ==
    [ id                 |-> dataSetID,
      name               |-> name,
      desc               |-> desc,
      replica            |-> IF replica <= 0 THEN 1 ELSE replica,
      cache_strategy     |-> cs,
      tags               |-> Join(tags, "_"),
      share_blob_sources |-> <<>>,
      share_blob_caches  |-> <<>>,
      replica_state      |-> ReplicaNoScale,
      create_time        |-> curTime,
      update_time        |-> curTime ]

\* a create that leaves out the entry of the creation-time sorted set
CreateWithoutZAdd(name, tags) ==
    (IF Len(name) > 0 THEN <<"nameKey">> ELSE <<>>)
    \o (IF Len(tags) > 0 THEN <<"tagsKey">> ELSE <<>>) \o <<"version">>

\* the calls CreateDataSet makes after SetMapElements, in order
CreateCalls(name, tags) ==
    <<"zadd">> \o (IF Len(name) > 0 THEN <<"nameKey">> ELSE <<>>)
    \o (IF Len(tags) > 0 THEN <<"tagsKey">> ELSE <<>>) \o <<"version">>

\* a call of CreateDataSet in flight
CreateRequest(name, desc, replica, cs, tags, curTime) ==
    [fn |-> "CreateDataSet", name |-> name, desc |-> desc, replica |-> replica, cs |-> cs,
     tags |-> tags, curTime |-> curTime, calls |-> CreateCalls(name, tags), i |-> 1]

\* what a step of CreateDataSet records: the form values of the request
CreateLast(op, r, exit, code, err) ==
    [Last(op, "create", exit, code, err)
     EXCEPT !.form = [name |-> r.name, desc |-> r.desc, replica |-> r.replica, cs |-> r.cs,
                      tags |-> r.tags]]

\* POST /api/v1/dataset arrives: validateReplica, GetUUID and SetMapElements
CreateDataSet(name, desc, replica, cs, tags, dynErr, fails) ==
    LET v == validateReplica(replica, MaxReplicas, Schedulers, dynErr)
        r == CreateRequest(name, desc, replica, cs, tags, now)
    IN
    /\ ~Crashed
    /\ ~idUsed
    /\ Len(requests) < MaxRequests
    /\ NoRequestFor({"UpdateDataSet", "DeleteDataSet"})
    /\ Charge(B(dynErr) + B(fails))
    /\ fails => v = "ok"
    /\ idUsed' = (v = "ok")
    /\ hash' = IF v = "ok" /\ ~fails
               THEN CreateValues(DataSetID, name, desc, replica, cs, tags, now) ELSE hash
    /\ IF v # "ok" THEN Answered([CreateLast("create", r, "validate", 422, v)
                                  EXCEPT !.path = "validate"])
       ELSE IF fails THEN Answered(CreateLast("create", r, "hash", 500, "errStore"))
       ELSE Begun(r, CreateLast("call", r, "hash", 0, ""))
    /\ UNCHANGED <<build, zset, nameKeys, tagsKeys, replicaKey, versions, workers, started,
                   now, call, tmpSets, updates>>

\* the next call of CreateDataSet: ZAdd, Set of the name key, Set of the tags key, or
\* CreateDataSetVersionImpl; an error is answered with 500, the end with 200
CreateStep(k, fails) ==
    LET r == requests[k]
        c == r.calls[r.i]
    IN  /\ r.fn = "CreateDataSet"
        /\ Charge(B(fails))
        /\ zset' = IF c = "zadd" /\ ~fails THEN zset \cup {<<DataSetID, r.curTime>>} ELSE zset
        /\ nameKeys' = IF c = "nameKey" /\ ~fails THEN nameKeys \cup {r.name} ELSE nameKeys
        /\ tagsKeys' = IF c = "tagsKey" /\ ~fails THEN tagsKeys \cup {Join(r.tags, "_")}
                       ELSE tagsKeys
        /\ versions' = IF c = "version" /\ ~fails
                       THEN CreateDataSetVersionImpl(versions, DefaultDatasetVersion)
                       ELSE versions
        /\ IF fails THEN Return(k, CreateLast("create", r, c, 500, "errStore"))
           ELSE IF r.i = Len(r.calls) THEN Return(k, CreateLast("create", r, "ok", 200, ""))
           ELSE Continue(k, [r EXCEPT !.i = r.i + 1], CreateLast("call", r, c, 0, ""))
        /\ UNCHANGED <<build, hash, replicaKey, workers, started, idUsed, now, call, tmpSets, updates>>

---------------------------------------------------------------------------
(* Import: the upload path of the daemon, outside this package.  It registers the *)
(* origin copy of a created dataset, the seed peers the upload was replicated to  *)
(* and the endpoints of the versions.                                             *)

\* the endpoint record a seed peer reports for its cached copy:
\* (DataEndpoint, DataRoot + "." + DataPath)
CacheEndpoint(host) == UrchinEndpoint(host[1], <<"r">> \o <<".">> \o <<"p">>)

CacheEndpoints(hosts) == [i \in 1..Len(hosts) |-> CacheEndpoint(hosts[i])]

\* origin copies: a bucket and an object, or a path without the separator
SourceChoices == { <<UrchinEndpoint("s3", <<"b", ".", "o">>)>>,
                   <<UrchinEndpoint("s3", <<"b", "o">>)>> }

\* the version records after an upload to hosts: the default version alone, or an
\* uploaded version beside a default version that stayed as CreateDataSet made it
\* or that holds empty lists
ImportedVersions(hosts) ==
    LET full(obj) == VersionInfo(<<UrchinEndpoint("s3", <<"b", ".", "o", "/">> \o obj)>>,
                                 VersionCaches(CacheEndpoints(hosts), obj))
    IN  { [x \in {DefaultDatasetVersion} |-> full(<<"f">>)] }
        \cup { [x \in {DefaultDatasetVersion, "v1"} |-> IF x = "v1" THEN full(<<"g">>) ELSE d] :
                  d \in {VersionInfo(NotJSON, NotJSON), VersionInfo(<<>>, <<>>)} }

\* a run of updateDataSetFunc from call i on in which no call fails
RECURSIVE PatchAll(_, _, _, _, _, _)
PatchAll(s, ops, i, p, caches, t) ==
    IF i > Len(ops) THEN s
    ELSE PatchAll(updateDataSetFunc(s, ops[i], p, caches, t), ops, i + 1, p, caches, t)

\* the upload of a dataset that no request and no goroutine is working on
ImportDataSet(sources, replicable, vs) ==
    LET r == Field(hash, "replica", 0)
        hosts == SubSeq(replicable, 1, r)
        p == Patch(<<>>, "", 0, "", <<>>, sources)
        out == PatchAll(PatchState(hash, tagsKeys, <<>>), PatchCalls(p, CacheEndpoints(hosts)), 1,
                        p, CacheEndpoints(hosts), now)
    IN  /\ ~Crashed
        /\ Field(hash, "id", "") = DataSetID
        /\ DefaultDatasetVersion \in DOMAIN versions
        /\ ~replicaKey.exists
        /\ workers = <<>> /\ requests = <<>>
        /\ r >= 1 /\ r <= Len(replicable)
        /\ vs \in ImportedVersions(hosts)
        /\ Charge(0)
        /\ hash' = out.h
        /\ replicaKey' = HostsKey(hosts)
        /\ versions' = vs
        /\ last' = Last("import", "patch", "ok", 0, "")
        /\ UNCHANGED <<build, zset, nameKeys, tagsKeys, workers, requests, started, idUsed, now,
                       call, tmpSets, updates>>

---------------------------------------------------------------------------
(* The scale-up goroutine of UpdateDataSetImpl *)

WorkerLast(w, path, exit, err) ==
    [Last("worker", path, exit, 0, err)
     EXCEPT !.wanted = w.p.wanted, !.H = w.E, !.C = w.old, !.N = w.N, !.got = w.got,
            !.attempt = w.attempt, !.orig = w.orig, !.reply = w.reply]

\* the goroutine returns with err: its deferred setReplicaState is next
WorkerExit(w, path, exit, err) == [w EXCEPT !.pc = "reset", !.path = path, !.exit = exit, !.err = err]

\* the goroutine at position k goes on as w2 after a call it made at its attempt
\* workers[k].attempt
WorkerContinue(k, w2, path, exit, err) ==
    /\ workers' = [workers EXCEPT ![k] = w2]
    /\ last' = [WorkerLast(w2, path, exit, err) EXCEPT !.k = k, !.attempt = workers[k].attempt]

\* every host is cached: shareBlobCaches = oldDatasetInfo.ShareBlobCaches ++
\* scaleUpCachesEndpoint, and updateDataSetFunc is next
WorkerCached(w) ==
    [w EXCEPT !.pc = "patch", !.ops = PatchCalls(w.p, w.old \o w.got), !.j = 1]

\* scaleUpSeedPeerDataset returned for host i: the next host, or the writes
WorkerNextHost(w) ==
    IF w.i + 1 > Len(w.N) THEN WorkerCached([w EXCEPT !.i = w.i + 1, !.attempt = 1])
    ELSE [w EXCEPT !.i = w.i + 1, !.attempt = 1, !.pc = "cache"]

\* a variant of AttemptFailed for comparison: a host that failed twice is skipped
\* and the goroutine goes on with the next host
AttemptFailedSkips(k, w, path, n) ==
    IF w.attempt = 1
    THEN /\ Charge(n)
         /\ WorkerContinue(k, [w EXCEPT !.attempt = 2, !.pc = "cache"], path, "retry", "errSeedPeer")
    ELSE /\ Charge(0)
         /\ WorkerContinue(k, WorkerNextHost(w), path, "skip", "errSeedPeer")

\* one call of scaleUpSeedPeerDataset returned an error to the goroutine w: the
\* first error for a host is followed by a second call after 5 s, the second ends
\* the goroutine
\* (the repeated call goes to the same seed peer: when it fails again the failure
\* is counted once)
AttemptFailed(k, w, path, n) ==
    IF w.attempt = 1
    THEN /\ Charge(n)
         /\ WorkerContinue(k, [w EXCEPT !.attempt = 2, !.pc = "cache"], path, "retry", "errSeedPeer")
    ELSE /\ Charge(0)
         /\ WorkerContinue(k, WorkerExit(w, path, "failed", "errSeedPeer"), path, "stop", "errSeedPeer")

\* POST cache_folder of scaleUpSeedPeerDataset: a transport error or a status that
\* is not 2xx is an error; a host without an address cannot be reached
WorkerCache(k, accepted) ==
    LET w == [workers[k] EXCEPT !.reply = ""] IN
    /\ w.pc = "cache"
    /\ IF accepted /\ w.N[w.i] # ZeroHost
       THEN /\ Charge(0)
            /\ WorkerContinue(k, [w EXCEPT !.pc = "poll"], "cache", "", "")
       ELSE AttemptFailed(k, w, "cache", B(~accepted))
    /\ UNCHANGED <<build, hash, zset, nameKeys, tagsKeys, replicaKey, versions, requests,
                   started, idUsed, now, call, tmpSets, updates>>

\* a reply body that is not JSON
NotJSONBody == [raw |-> "x"]

\* the bodies a 2xx reply to GET check_folder of host can carry: one that is not
\* JSON; a JSON object without a StatusCode number; StatusCode 1 (in progress),
\* 2 (failed) or 0 (done), the last with or without the endpoint of the copy
PollBodies(host) ==
    << NotJSONBody,
       [Message |-> "x"],
       [StatusCode |-> 1],
       [StatusCode |-> 2],
       [StatusCode |-> 0],
       [StatusCode |-> 0, DataEndpoint |-> host[1], DataRoot |-> <<"r">>, DataPath |-> <<"p">>] >>

\* checkObjectStatus from json.Unmarshal of the body on: "err"; "again" (nil, nil);
\* "done" with the endpoint; or "panic", when the type assertion of StatusCode or
\* of a field of the endpoint fails
checkObjectStatus(body) ==
    IF "raw" \in DOMAIN body THEN [r |-> "err", endpoint |-> ZeroEndpoint]
    ELSE IF "StatusCode" \notin DOMAIN body THEN [r |-> "panic", endpoint |-> ZeroEndpoint]
    ELSE IF body.StatusCode = 1 THEN [r |-> "again", endpoint |-> ZeroEndpoint]
    ELSE IF body.StatusCode # 0 THEN [r |-> "err", endpoint |-> ZeroEndpoint]
    ELSE IF ~({"DataEndpoint", "DataRoot", "DataPath"} \subseteq DOMAIN body)
    THEN [r |-> "panic", endpoint |-> ZeroEndpoint]
    ELSE [r |-> "done",
          endpoint |-> UrchinEndpoint(body.DataEndpoint, body.DataRoot \o <<".">> \o body.DataPath)]

\* one GET of checkObjectStatus in the polling loop of scaleUpSeedPeerDataset: the
\* GET of a round (after 3 s) or, after a status that is not 2xx, its repetition
\* (after 2 s).  status is "err" (transport error), "non2xx" or "2xx"; body is the
\* body of a 2xx reply.  A failure is counted for the first GET of a round at the
\* first attempt for the host.
WorkerPoll(k, status, body) ==
    LET w == [workers[k] EXCEPT !.reply = status]
        c == checkObjectStatus(body)
        n == IF w.pc = "poll" /\ w.attempt = 1 THEN 1 ELSE 0
    IN
    /\ w.pc \in {"poll", "poll2"}
    /\ IF status = "err" THEN AttemptFailed(k, w, "poll", n)
       ELSE IF status = "non2xx"
       THEN IF w.pc = "poll2" THEN AttemptFailed(k, w, "poll", 0)
            ELSE /\ Charge(n)
                 /\ WorkerContinue(k, [w EXCEPT !.pc = "poll2"], "poll", "repeat", "")
       ELSE IF c.r = "again"
       THEN /\ Charge(0)
            /\ WorkerContinue(k, [w EXCEPT !.pc = "poll"], "poll", "again", "")
       ELSE IF c.r = "done"
       THEN /\ Charge(0)
            /\ WorkerContinue(k, WorkerNextHost([w EXCEPT !.got = Append(@, c.endpoint)]),
                              "poll", "done", "")
       ELSE IF c.r = "panic"
       THEN /\ Charge(n)
            /\ WorkerContinue(k, WorkerExit(w, "poll", "panic", "panic"), "poll", "panic", "panic")
       ELSE AttemptFailed(k, w, "poll", n)
    /\ UNCHANGED <<build, hash, zset, nameKeys, tagsKeys, replicaKey, versions, requests,
                   started, idUsed, now, call, tmpSets, updates>>

\* one store call of updateDataSetFunc in the goroutine; a failure of Del of the old
\* tags key or of SetMapElement(update_time) is dropped
WorkerPatch(k, fails) ==
    LET w == workers[k]
        op == w.ops[w.j]
        s == IF fails /\ op \notin FailOps(w.p, w.old \o w.got)
             THEN PatchState(hash, tagsKeys, w.oldTags)
             ELSE updateDataSetFunc(PatchState(hash, tagsKeys, w.oldTags), op, w.p, w.old \o w.got, now)
        failed == (fails /\ op \in FailOps(w.p, w.old \o w.got)) \/ s.err
        w2 == IF failed THEN WorkerExit(w, "patch", "failed", "errStore")
              ELSE IF w.j < Len(w.ops) THEN [w EXCEPT !.j = w.j + 1, !.oldTags = s.oldTags]
              ELSE [w EXCEPT !.j = w.j + 1, !.pc = "dir"]
    IN  /\ w.pc = "patch"
        /\ Charge(B(fails))
        /\ hash' = IF failed THEN hash ELSE s.h
        /\ tagsKeys' = IF failed THEN tagsKeys ELSE s.tk
        /\ WorkerContinue(k, w2, "patch", IF failed THEN "stop" ELSE op,
                          IF failed THEN "errStore" ELSE "")
        /\ UNCHANGED <<build, zset, nameKeys, replicaKey, versions, requests, started, idUsed,
                       now, call, tmpSets, updates>>

\* updateRedisReplicaInfo(dataSetID, append(replicaHosts, scaleUpReplicas...))
WorkerDir(k, fails) ==
    LET w == workers[k]
        w2 == IF fails THEN WorkerExit(w, "dir", "failed", "errStore") ELSE [w EXCEPT !.pc = "list"]
    IN  /\ w.pc = "dir"
        /\ Charge(B(fails))
        /\ replicaKey' = updateRedisReplicaInfo(replicaKey, w.E \o w.N, fails)
        /\ WorkerContinue(k, w2, "dir", IF fails THEN "stop" ELSE "", IF fails THEN "errStore" ELSE "")
        /\ UNCHANGED <<build, hash, zset, nameKeys, tagsKeys, versions, requests, started,
                       idUsed, now, call, tmpSets, updates>>

\* scaleUpDatasetVersionInfo goes on at entry w.vi of its listing
WorkerVersions(w) ==
    LET n == scaleUpDatasetVersionInfo(w.listed, w.vi, w.got) IN
    IF n.stop = "end" THEN WorkerExit(w, "versions", "ok", "")
    ELSE IF n.stop \in {"errUnmarshalCaches", "errUnmarshalSources"}
    THEN WorkerExit(w, "versions", "failed", "errUnmarshal")
    ELSE IF n.stop = "errMetaSources" THEN WorkerExit(w, "versions", "failed", "errMetaSources")
    ELSE [w EXCEPT !.pc = "version"]

\* ListAllDataSetVersions of scaleUpDatasetVersionInfo
WorkerList(k, order, fails) ==
    LET w == workers[k]
        w2 == IF fails THEN WorkerExit(w, "versions", "failed", "errStore")
              ELSE WorkerVersions([w EXCEPT !.listed = ListAllDataSetVersions(versions, order),
                                            !.vi = 1])
    IN  /\ w.pc = "list"
        /\ Charge(B(fails))
        /\ WorkerContinue(k, w2, "versions", IF w2.pc = "reset" THEN "stop" ELSE "list", w2.err)
        /\ UNCHANGED <<build, hash, zset, nameKeys, tagsKeys, replicaKey, versions, requests,
                       started, idUsed, now, call, tmpSets, updates>>

\* UpdateDataSetVersionImpl of scaleUpDatasetVersionInfo for entry w.vi of its listing
WorkerVersion(k, fails) ==
    LET w == workers[k]
        n == scaleUpDatasetVersionInfo(w.listed, w.vi, w.got)
        w2 == IF fails THEN WorkerExit(w, "versions", "failed", "errStore")
              ELSE WorkerVersions([w EXCEPT !.vi = w.vi + 1])
    IN  /\ w.pc = "version"
        /\ Charge(B(fails))
        /\ versions' = IF fails THEN versions
                       ELSE UpdateDataSetVersionImpl(versions, w.listed[w.vi].id, n.metaCaches)
        /\ WorkerContinue(k, w2, "versions", IF w2.pc = "reset" THEN "stop" ELSE "version", w2.err)
        /\ UNCHANGED <<build, hash, zset, nameKeys, tagsKeys, replicaKey, requests, started,
                       idUsed, now, call, tmpSets, updates>>

\* the goroutine returns or panics: its deferred setReplicaState(dataSetID,
\* ReplicaNoScale) runs.  A goroutine that returned is gone after it; one that
\* panicked is not recovered, and the process ends next (WorkerCrash).
WorkerReset(k, resetFails) ==
    LET w == workers[k] IN
    /\ w.pc = "reset"
    /\ Charge(B(resetFails))
    /\ workers' = IF w.exit = "panic" THEN [workers EXCEPT ![k] = [w EXCEPT !.pc = "crash"]]
                  ELSE RemoveAt(workers, k)
    /\ hash' = setReplicaState(hash, ReplicaNoScale, resetFails)
    /\ last' = [WorkerLast(w, w.path, w.exit, w.err)
                EXCEPT !.resetIssued = TRUE, !.resetOk = ~resetFails, !.k = k]
    /\ UNCHANGED <<build, zset, nameKeys, tagsKeys, replicaKey, versions, requests, started,
                   idUsed, now, call, tmpSets, updates>>

\* the run-time ends the process after the deferred calls of the goroutine that
\* panicked: every request and goroutine in flight ends with it, wherever it stood,
\* and no request is taken up any more
WorkerCrash(k) ==
    LET w == workers[k] IN
    /\ w.pc = "crash"
    /\ workers' = <<>>
    /\ requests' = <<>>
    /\ call' = PanicCall
    /\ last' = [WorkerLast(w, w.path, "crash", w.err) EXCEPT !.k = k]
    /\ UNCHANGED <<build, hash, zset, nameKeys, tagsKeys, replicaKey, versions, started,
                   idUsed, now, tmpSets, updates, faults>>

\* what the seed peer answers to a GET of the polling loop
PollReplies(host) ==
    {<<"err", 1>>, <<"non2xx", 1>>} \cup {<<"2xx", b>> : b \in 1..Len(PollBodies(host))}

WorkerStep(k) ==
    \/ \E accepted \in BOOLEAN : WorkerCache(k, accepted)
    \/ /\ workers[k].pc \in {"poll", "poll2"}
       /\ \E r \in PollReplies(workers[k].N[workers[k].i]) :
             WorkerPoll(k, r[1], PollBodies(workers[k].N[workers[k].i])[r[2]])
    \/ \E fails \in BOOLEAN :
          \/ WorkerPatch(k, fails)
          \/ WorkerDir(k, fails)
          \/ WorkerVersion(k, fails)
          \/ WorkerReset(k, fails)
          \/ \E order \in VersionOrders(versions) : WorkerList(k, order, fails)
    \/ WorkerCrash(k)

---------------------------------------------------------------------------
(* The specification of the replication controller *)

Builds == {"grow", "legacy"}

NoCall == [fn |-> "", args |-> <<>>, done |-> FALSE, ret |-> ""]

Init ==
    /\ build \in Builds
    /\ hash = NoHash
    /\ zset = {}
    /\ nameKeys = {}
    /\ tagsKeys = {}
    /\ replicaKey = NoKey
    /\ versions = NoVersions
    /\ requests = <<>>
    /\ workers = <<>>
    /\ started = 0
    /\ faults = 0
    /\ idUsed = FALSE
    /\ updates = 0
    /\ now = 1
    /\ last = Last("none", "", "", 0, "")
    /\ tmpSets = <<>>
    /\ call = NoCall

\* the replica counts a client asks for: none, each count up to one more than there
\* are seed peers
Wanted == 0..(MaxPeers + 1)

Create ==
    \/ \E replica \in Wanted, dynErr \in BOOLEAN, fails \in BOOLEAN :
          CreateDataSet(<<>>, "", replica, "", <<>>, dynErr, fails)
    \/ \E k \in 1..Len(requests), fails \in BOOLEAN : CreateStep(k, fails)

Import ==
    \E sources \in SourceChoices :
        \E vs \in ImportedVersions(SubSeq(UploadOrder, 1, Field(hash, "replica", 0))) :
            ImportDataSet(sources, UploadOrder, vs)

UpdateDataSet(p, readErr) == UpdateBegin(p, readErr, MaxWorkers, MaxRequests, MaxUpdates)

Update ==
    \/ \E wanted \in Wanted, readErr \in BOOLEAN :
          UpdateDataSet(Patch(<<>>, "", wanted, "", <<>>, <<>>), readErr)
    \/ \E k \in 1..Len(requests) : UpdateStep(k, MaxWorkers)

Work == \E k \in 1..Len(workers) : WorkerStep(k)

Next == Create \/ Import \/ Update \/ Work

Spec == Init /\ [][Next]_vars

---------------------------------------------------------------------------
(* Properties *)

\* the stored fields of the dataset record
Replica == Field(hash, "replica", 0)

ReplicaState == Field(hash, "replica_state", ReplicaNoScale)

ShareBlobCaches == Field(hash, "share_blob_caches", <<>>)

\* the record of the dataset exists
Stored == HasField(hash, "id")

\* no request and no goroutine is in flight
Idle == workers = <<>> /\ requests = <<>>

\* C1: whenever the stored replica_state of a dataset is NoScale, share_blob_caches
\* has replica entries and the replica host list has replica entries.  Stated for
\* the datasets an upload has registered hosts for, with no request and no scale-up
\* in flight.
C1_NoScaleLengths ==
    (Stored /\ replicaKey.exists /\ Idle /\ ReplicaState = ReplicaNoScale)
        => /\ Len(ShareBlobCaches) = Replica
           /\ Len(replicaKey.hosts) = Replica

\* a scale-down whose directory write succeeded and whose patch of the record failed
C1_Reached ==
    /\ last.op = "update" /\ last.path = "down" /\ last.exit = "patch"
    /\ Idle /\ ReplicaState = ReplicaNoScale
    /\ Len(replicaKey.hosts) < Replica

\* the distinct addresses ip:port of the seed peers of a directory that are not the
\* local daemon and serve object storage
ReplicableAddresses(schedulers) ==
    { HostOf(schedulers[i].SeedPeers[j]) :
        <<i, j>> \in { <<i, j>> \in (1..Len(schedulers)) \X (1..6) :
                         /\ j <= Len(schedulers[i].SeedPeers)
                         /\ schedulers[i].SeedPeers[j].Ip # AdvertiseIP
                         /\ schedulers[i].SeedPeers[j].ObjectStoragePort > 0 } }

ValidateReturned == call.fn = "validateReplica" /\ call.done

\* C2 (as the code has it): when Dynconfig can be read, validateReplica(wanted)
\* returns no error if and only if wanted <= min(MaxReplicas, number of distinct
\* replicable seed-peer addresses); a wanted count of 0 is accepted.  When wanted
\* is within MaxReplicas and Dynconfig cannot be read it returns that error.
C2_ValidateAccepts ==
    ValidateReturned =>
        LET a == call.args
            n == Cardinality(ReplicableAddresses(a.schedulers))
        IN  /\ ~a.dynErr => (call.ret = "ok" <=> a.wanted <= Min(a.maxReplicas, n))
            /\ a.dynErr => call.ret # "ok"

\* validateReplica accepted a positive count equal to the number of distinct
\* replicable addresses of a directory that repeats one
C2_Accepted ==
    /\ ValidateReturned /\ call.ret = "ok" /\ call.args.wanted = 2
    /\ Cardinality(ReplicableAddresses(call.args.schedulers)) = 2
    /\ Len(call.args.schedulers) = 2

\* C2 (as stated): validateReplica(wanted) returns no error if and only if
\* 0 < wanted <= min(MaxReplicas, number of replicable seed peers)
C2_ValidateIffPositive ==
    (ValidateReturned /\ ~call.args.dynErr) =>
        LET a == call.args
            n == Cardinality(ReplicableAddresses(a.schedulers))
        IN  call.ret = "ok" <=> (0 < a.wanted /\ a.wanted <= Min(a.maxReplicas, n))

\* the last step answered a PATCH that took the scale-down branch and set ScaleDown
ScaledDown == last.op = "update" /\ last.path = "down" /\ last.setState

\* the last step answered a PATCH whose scale-down ran to its end
ScaledDownOk == ScaledDown /\ last.exit = "ok"

\* C3: a PATCH whose wanted replica exceeds the number of replicable seed peers is
\* rejected: UpdateDataSetImpl returns the error about the replicable datasource
\* count and the handler does not answer 200.  Stated for the requests that reach
\* the host selection of the scale-up branch in a run without any failed call.
C3_OverCapacityRejected ==
    (last.op = "update" /\ last.path = "up" /\ faults = 0
       /\ last.wanted > Cardinality(ReplicableAddresses(Schedulers)))
        => /\ last.err = "errReplicableCount"
           /\ last.code # 200

\* the selection refused the request for its count and the request was answered 200
C3_Reached ==
    /\ last.op = "update" /\ last.selErr = "errReplicableCount"
    /\ last.resetOk /\ last.code = 200

\* C4: the stored replica never exceeds MaxReplicas and never exceeds the number of
\* replicable seed peers, for values written by update as well as by create.
\* Stated for the runs without any failed call.
C4_ReplicaBounded ==
    (Stored /\ faults = 0)
        => /\ Replica <= MaxReplicas
           /\ Replica <= Cardinality(ReplicableAddresses(Schedulers))

\* the goroutine of a scale-up wrote a replica above MaxReplicas
C4_Reached ==
    /\ last.op = "worker" /\ last.path = "patch" /\ last.exit = "replica"
    /\ Replica = last.wanted /\ Replica > MaxReplicas

\* C5: once an update has set replica_state to ScaleDown, every exit of the request
\* (success, a failed directory read or write, a failed patch of the record, a
\* failed patch of a version) writes NoScale before the request returns: with no
\* other request and no goroutine in flight for the dataset, the stored state after
\* the return is NoScale.
C5_ScaleDownResets ==
    (ScaledDown /\ Idle) => ReplicaState = ReplicaNoScale

\* a scale-down ran to its end and was answered 200; the store rejected the deferred
\* write of NoScale, its only failed call, and ScaleDown stays stored with nothing
\* in flight
C5_Reached ==
    /\ ScaledDownOk /\ last.code = 200 /\ Idle
    /\ last.resetIssued /\ ~last.resetOk
    /\ ReplicaState = ReplicaScaleDown

\* C6: every update that sets replica_state to ScaleUp is eventually followed by
\* NoScale.  Stated so that a finite run refutes it: in a run without any failed
\* call, once every request has returned and no goroutine is in flight, the stored
\* state is not ScaleUp (nothing is left that would reset it).
C6_ScaleUpResets ==
    (Idle /\ faults = 0) => ReplicaState # ReplicaScaleUP

\* a PATCH set ScaleUp and its host selection ended in a run-time panic
C6_Reached ==
    /\ last.op = "update" /\ last.path = "up" /\ last.err = "panic"
    /\ ReplicaState = ReplicaScaleUP /\ Idle

\* C7: after a successful scale-down from host list H and cache list C to w
\* replicas (0 < w < replica), the directory holds the first w hosts of H in order,
\* share_blob_caches holds the first w entries of C in order, and replica is w.
\* Stated for the scale-downs that return with nothing else in flight.
C7_ScaleDownResult ==
    (ScaledDownOk /\ Idle) =>
        /\ 0 < last.wanted /\ last.wanted < last.replica
        /\ last.wanted <= Len(last.H) /\ last.wanted <= Len(last.C)
        /\ replicaKey.hosts = SubSeq(last.H, 1, last.wanted)
        /\ ShareBlobCaches = SubSeq(last.C, 1, last.wanted)
        /\ Replica = last.wanted

\* a scale-down from three hosts to one ran to its end
C7_Reached ==
    /\ ScaledDownOk /\ Len(last.H) = 3 /\ last.wanted = 1
    /\ Len(replicaKey.hosts) = 1 /\ Len(ShareBlobCaches) = 1

\* the steps that call destroySeedPeerDataset
DestroyStep == last'.op = "call" /\ last'.exit = "destroy"

\* C8: a scale-down from host list H to w replicas attempts destroy once for each
\* host of H[w:], in order, and for no other host; a destroy that fails does not
\* stop the others, and the update still answers 200 after the directory, the
\* record and the versions were written; a destroy call, failed or not, writes
\* nothing to the store.  A scale-down that failed earlier destroys nothing.
C8_DestroysTail ==
    /\ [](ScaledDownOk =>
            /\ last.destroys = SubSeq(last.H, last.wanted + 1, Len(last.H))
            /\ last.code = 200
            /\ {"dir", "record", "versions", "destroys"} \subseteq last.phases)
    /\ []((last.op = "update" /\ ~ScaledDownOk) => last.destroys = <<>>)
    /\ [][DestroyStep => UNCHANGED <<hash, zset, nameKeys, tagsKeys, replicaKey, versions>>]_vars

\* of two destroys the first failed and the second was still attempted
C8_Reached ==
    /\ ScaledDownOk /\ last.destroyFailed = {1} /\ Len(last.destroys) = 2
    /\ last.code = 200

\* the last step was the step of a scale-up goroutine that finished the patch of
\* the record
WorkerPatched == last.op = "worker" /\ last.path = "patch" /\ last.exit = "update_time"

\* the last step was the step of a scale-up goroutine that wrote the directory
WorkerWroteDir == last.op = "worker" /\ last.path = "dir" /\ last.exit = ""

NoDuplicates(seq) == \A i, j \in 1..Len(seq) : seq[i] = seq[j] => i = j

\* C9: a scale-up goroutine that goes from c to w replicas with existing hosts E
\* and new hosts N leaves share_blob_caches as the previous cache list followed by
\* one endpoint record per host of N in the order they were cached, replica as w,
\* and the directory as E followed by N without a host listed twice; both lists
\* have length w.  Stated at the two writes of the goroutine, for the goroutines
\* that no request ran beside.
C9_ScaleUpResult ==
    /\ (WorkerPatched /\ requests = <<>>) =>
          /\ ShareBlobCaches = last.C \o CacheEndpoints(last.N)
          /\ Replica = last.wanted
          /\ Len(ShareBlobCaches) = last.wanted
    /\ (WorkerWroteDir /\ requests = <<>>) =>
          /\ replicaKey.hosts = last.H \o last.N
          /\ NoDuplicates(replicaKey.hosts)
          /\ Len(replicaKey.hosts) = last.wanted

\* a goroutine that started from a directory shorter than replica wrote its hosts
C9_Reached ==
    /\ WorkerWroteDir /\ requests = <<>>
    /\ replicaKey.hosts = last.H \o last.N
    /\ Len(replicaKey.hosts) < last.wanted

\* the last step ended a scale operation whose request was answered 200: a
\* scale-down that ran to its end, or the exit of the goroutine of a scale-up
ScaleReported == ScaledDownOk \/ (last.op = "worker" /\ last.resetIssued)

\* no scale operation is in flight
Quiescent == Idle /\ ReplicaState = ReplicaNoScale

\* C10: at quiescence after a scale-up or scale-down that reported success, every
\* version of the dataset has a meta_caches list as long as replica.  Stated for
\* the datasets all of whose versions have a source.
C10_VersionsMatchReplica ==
    (Stored /\ Quiescent /\ ScaleReported
       /\ \A v \in DOMAIN versions : Len(versions[v].meta_sources) > 0)
        => \A v \in DOMAIN versions : Len(versions[v].meta_caches) = Replica

\* the goroutine of a scale-up that was answered 200 ended after it had patched the
\* record and before it reached the versions
C10_Reached ==
    /\ Quiescent /\ last.op = "worker" /\ last.path = "dir" /\ last.exit = "failed"
    /\ Replica = last.wanted
    /\ \E v \in DOMAIN versions : Len(versions[v].meta_caches) < Replica

---------------------------------------------------------------------------
(* C11 *)

\* a step of a call of UpdateDataSetImpl that took neither scaling branch
PlainStep == last'.op \in {"call", "update"} /\ last'.path = "patch"

\* a call of UpdateDataSetImpl that carries no replica value or the replica of the
\* record it read
PlainRequest(wanted, replica) == wanted = 0 \/ wanted = replica

\* C11: an update whose wanted replica equals the current replica, or that carries
\* no replica value, only applies the field patch: it takes neither scaling branch,
\* and no step of it writes replica_state, writes the replica directory, changes a
\* version, starts a scale-up goroutine or issues a destroy call.
C11_PlainUpdateFrame ==
    /\ [](\A i \in 1..Len(requests) :
             (requests[i].fn = "UpdateDataSet"
                /\ PlainRequest(requests[i].p.wanted, requests[i].old.Replica))
             => requests[i].path = "patch")
    /\ []((last.op = "update" /\ last.path # "get" /\ PlainRequest(last.wanted, last.replica))
             => last.path = "patch")
    /\ [][PlainStep =>
             /\ ~last'.setState /\ ~last'.resetIssued
             /\ Field(hash', "replica_state", ReplicaNoScale) = ReplicaState
             /\ replicaKey' = replicaKey
             /\ versions' = versions
             /\ Len(workers') = Len(workers) /\ started' = started
             /\ last'.destroys = <<>>]_vars

\* an update that asked for the replica the record already had was answered 200 on
\* a dataset that has a replica directory and versions with caches
C11_Reached ==
    /\ last.op = "update" /\ last.path = "patch" /\ last.code = 200
    /\ last.wanted > 0 /\ last.wanted = last.replica
    /\ replicaKey.exists /\ Len(replicaKey.hosts) > 0
    /\ \E v \in DOMAIN versions : Len(versions[v].meta_caches) > 0

---------------------------------------------------------------------------
(* C12 *)

\* C12: a scale-up update is answered as soon as its goroutine is started, before
\* any seed-peer cache or check call of that goroutine; a scale-down update is
\* answered with success only after the directory, the record and the versions
\* were written and a destroy call was made for every host it dropped.
C12_ReturnPoints ==
    /\ (last.op = "update" /\ last.path = "up" /\ last.exit = "spawn") =>
          /\ last.code = 200
          /\ workers # <<>>
          /\ LET w == workers[Len(workers)] IN
                /\ w.pc = "cache" /\ w.i = 1 /\ w.attempt = 1 /\ w.got = <<>>
                /\ w.p.wanted = last.wanted
    /\ (last.op = "update" /\ last.path = "down" /\ last.code = 200) =>
          /\ last.exit = "ok"
          /\ {"dir", "record", "versions", "destroys"} \subseteq last.phases
          /\ Len(last.destroys) = Len(last.H) - last.wanted

\* a scale-up was answered 200 while its goroutine had not yet called a seed peer
C12_Reached ==
    /\ last.op = "update" /\ last.path = "up" /\ last.exit = "spawn" /\ last.code = 200
    /\ Len(workers) = 1 /\ workers[1].pc = "cache" /\ Len(workers[1].N) > 0

---------------------------------------------------------------------------
(* C13 *)

\* C13: after a scale-up goroutine has failed and replica_state is back at NoScale,
\* an update that asks for the same replica again, with no further failure and
\* nothing else in flight, leaves share_blob_caches, the replica host list and
\* replica all at the wanted value when it does not start a new goroutine.
C13_RetryRecovers ==
    (/\ last.op = "update" /\ last.code = 200
     /\ last.wanted > 0 /\ last.retry = <<last.wanted, faults>>
     /\ Idle)
    => /\ Len(ShareBlobCaches) = last.wanted
       /\ Len(replicaKey.hosts) = last.wanted
       /\ Replica = last.wanted

\* the update that repeated the replica value of a failed scale-up was answered 200
\* and the replica host list is still shorter than replica
C13_Reached ==
    /\ last.op = "update" /\ last.path = "patch" /\ last.code = 200
    /\ last.wanted > 0 /\ last.wanted = Replica /\ last.retry = <<last.wanted, faults>>
    /\ Idle /\ ReplicaState = ReplicaNoScale
    /\ Len(replicaKey.hosts) < Replica

---------------------------------------------------------------------------
(* Behaviours without failures: no call to the store, to a seed peer or to *)
(* Dynconfig returns an error.                                             *)

InitNoFaults ==
    /\ build \in Builds
    /\ hash = NoHash
    /\ zset = {}
    /\ nameKeys = {}
    /\ tagsKeys = {}
    /\ replicaKey = NoKey
    /\ versions = NoVersions
    /\ requests = <<>>
    /\ workers = <<>>
    /\ started = 0
    /\ faults = MaxFaults
    /\ idUsed = FALSE
    /\ updates = 0
    /\ now = 1
    /\ last = Last("none", "", "", 0, "")
    /\ tmpSets = <<>>
    /\ call = NoCall

---------------------------------------------------------------------------
(* Process shutdown.  The package has no handler for a shutdown signal: the       *)
(* goroutine of a scale-up is started with context.Background() and nothing it    *)
(* runs reads a signal.  The signal is raised while a goroutine is in flight;     *)
(* afterwards the goroutine goes on as before until the process ends, and the end *)
(* of the process ends every goroutine without running its deferred calls.        *)

ShutdownCall(done) == [fn |-> "shutdown", args |-> <<>>, done |-> done, ret |-> ""]

\* the shutdown signal is raised
Shutdown ==
    /\ call = NoCall
    /\ workers # <<>>
    /\ call' = ShutdownCall(FALSE)
    /\ last' = Last("shutdown", "", "", 0, "")
    /\ UNCHANGED <<build, hash, zset, nameKeys, tagsKeys, replicaKey, versions, requests, workers,
                   started, faults, idUsed, now, tmpSets, updates>>

\* the process ends
ProcessExit ==
    /\ call = ShutdownCall(FALSE)
    /\ call' = ShutdownCall(TRUE)
    /\ workers' = <<>>
    /\ requests' = <<>>
    /\ last' = Last("exit", "", "", 0, "")
    /\ UNCHANGED <<build, hash, zset, nameKeys, tagsKeys, replicaKey, versions,
                   started, faults, idUsed, now, tmpSets, updates>>

NextShutdown ==
    \/ call = NoCall /\ Next
    \/ call = ShutdownCall(FALSE) /\ Work
    \/ Shutdown
    \/ ProcessExit

SpecShutdown == InitNoFaults /\ [][NextShutdown]_vars

\* C14: a scale-up goroutine in flight when the shutdown signal is raised exits:
\* the first step it takes after the signal is its return with replica_state reset
\* to NoScale, and when the process has ended replica_state is NoScale.
C14_ShutdownStopsWorker ==
    /\ (call.fn = "shutdown" /\ last.op = "worker") =>
          /\ workers = <<>>
          /\ last.resetIssued
          /\ last.resetOk => ReplicaState = ReplicaNoScale
    /\ call = ShutdownCall(TRUE) => ReplicaState = ReplicaNoScale

\* after the signal the goroutine made a seed-peer call and is still in flight
C14_Reached ==
    /\ call = ShutdownCall(FALSE)
    /\ last.op = "worker" /\ last.path \in {"cache", "poll"}
    /\ workers # <<>> /\ ReplicaState = ReplicaScaleUP

---------------------------------------------------------------------------
(* DeleteDataSet and GetDataSet, and the specification of the records and their *)
(* index keys: datasets created with names and tags, patched, read and deleted  *)

\* a call of DeleteDataSet in flight: the call it makes next, and the name and the
\* joined tags GetMapElement returned to it
DeleteRequest(pc, name, tags) == [fn |-> "DeleteDataSet", pc |-> pc, name |-> name, tags |-> tags]

\* DELETE /api/v1/dataset/:datasetid arrives: GetMapElement(name), which returns an
\* error when the hash has no such field
DeleteDataSet(fails) ==
    LET name == Field(hash, "name", <<>>) IN
    /\ ~Crashed
    /\ Len(requests) < MaxRequests
    /\ NoRequestFor({"CreateDataSet"})
    /\ Charge(B(fails))
    /\ workers' = Untracked(workers)
    /\ IF fails \/ ~HasField(hash, "name")
       THEN Answered(Last("delete", "delete", "nameGet", 500, "errStore"))
       ELSE Begun(DeleteRequest(IF Len(name) > 0 THEN "nameDel" ELSE "tagsGet", name, <<>>),
                  Last("call", "delete", "nameGet", 0, ""))
    /\ UNCHANGED <<build, hash, zset, nameKeys, tagsKeys, replicaKey, versions, started, idUsed,
                   now, call, tmpSets, updates>>

\* the call of DeleteDataSet that follows r.pc when that call has returned
DeleteNext(r, tags) ==
    CASE r.pc = "nameDel" -> "tagsGet"
      [] r.pc = "tagsGet" -> IF Len(tags) > 0 THEN "tagsDel" ELSE "zrem"
      [] r.pc = "tagsDel" -> "zrem"
      [] r.pc = "zrem" -> "deleteMap"
      [] r.pc = "deleteMap" -> "del"
      [] r.pc = "del" -> "ok"

\* the next call of DeleteDataSet: Del of the name key, GetMapElement(tags), Del of
\* the tags key, ZRem, DeleteMap or Del of the hash key.  The errors of the two Del
\* calls of the prefix keys and of ZRem are logged only.
DeleteStep(k, fails) ==
    LET r == requests[k]
        tags == IF r.pc = "tagsGet" THEN Field(hash, "tags", <<>>) ELSE r.tags
        stop == \/ r.pc = "tagsGet" /\ (fails \/ ~HasField(hash, "tags"))
                \/ r.pc \in {"deleteMap", "del"} /\ fails
        next == DeleteNext(r, tags)
    IN  /\ r.fn = "DeleteDataSet"
        /\ Charge(B(fails))
        /\ nameKeys' = IF r.pc = "nameDel" /\ ~fails THEN nameKeys \ {r.name} ELSE nameKeys
        /\ tagsKeys' = IF r.pc = "tagsDel" /\ ~fails THEN tagsKeys \ {r.tags} ELSE tagsKeys
        /\ zset' = IF r.pc = "zrem" /\ ~fails THEN {e \in zset : e[1] # DataSetID} ELSE zset
        /\ hash' = IF r.pc \in {"deleteMap", "del"} /\ ~fails THEN NoHash ELSE hash
        /\ IF stop THEN Return(k, Last("delete", "delete", r.pc, 500, "errStore"))
           ELSE IF next = "ok" THEN Return(k, Last("delete", "delete", "ok", 200, ""))
           ELSE Continue(k, [r EXCEPT !.pc = next, !.tags = tags],
                         Last("call", "delete", r.pc, 0, IF fails THEN "errStore" ELSE ""))
        /\ UNCHANGED <<build, replicaKey, versions, workers, started, idUsed, now, call, tmpSets, updates>>

\* GET /api/v1/dataset/:datasetid
GetDataSet(readErr) ==
    LET g == GetDataSetImpl(hash, DataSetID, readErr) IN
    /\ ~Crashed
    /\ NoRequestFor({"CreateDataSet"})
    /\ Charge(B(readErr))
    /\ last' = [Last("get", "get", IF g.err = "" THEN "ok" ELSE "get", UpdateStatus(g.err), g.err)
                EXCEPT !.replica = g.info.Replica, !.C = g.info.ShareBlobCaches,
                       !.got = g.info.Tags, !.state = g.info.ReplicaState]
    /\ UNCHANGED <<build, hash, zset, nameKeys, tagsKeys, replicaKey, versions, requests,
                   workers, started, idUsed, now, call, tmpSets, updates>>

\* the names and tag lists a client sends
Names == {<<>>, <<"n", "1">>, <<"n", "2">>}

TagLists == {<<>>, <<<<"t">>>>, <<<<"t">>, <<"u">>>>}

CreateNamed ==
    \/ \E name \in Names, tags \in TagLists, replica \in {0, MaxReplicas}, fails \in BOOLEAN :
          CreateDataSet(name, "", replica, "", tags, FALSE, fails)
    \/ \E k \in 1..Len(requests), fails \in BOOLEAN : CreateStep(k, fails)

PatchFields ==
    \/ \E name \in Names, tags \in TagLists, readErr \in BOOLEAN :
          UpdateDataSet(Patch(name, "", 0, "", tags, <<>>), readErr)
    \/ \E k \in 1..Len(requests), fails \in BOOLEAN : UpdatePatch(k, fails)

Delete ==
    \/ \E fails \in BOOLEAN : DeleteDataSet(fails)
    \/ \E k \in 1..Len(requests), fails \in BOOLEAN : DeleteStep(k, fails)

Get == \E readErr \in BOOLEAN : GetDataSet(readErr)

NextStore == CreateNamed \/ Import \/ PatchFields \/ Delete \/ Get

SpecStore == Init /\ [][NextStore]_vars

---------------------------------------------------------------------------
(* C15 *)

\* C15: after a create that was answered 200, with no other request in flight, the
\* store holds the primary hash of the new id with replica_state NoScale and
\* create_time equal to update_time, the id in the creation-time sorted set with
\* create_time as its score, a name-prefix key exactly when the name is not empty,
\* a tag-prefix key exactly when the tag list is not empty, and the default
\* version.
C15_CreateWrites ==
    (last.op = "create" /\ last.code = 200 /\ requests = <<>>) =>
        /\ Field(hash, "id", "") = DataSetID
        /\ HasField(hash, "replica_state") /\ hash["replica_state"] = ReplicaNoScale
        /\ HasField(hash, "create_time") /\ HasField(hash, "update_time")
        /\ hash["create_time"] = hash["update_time"]
        /\ zset = {<<DataSetID, hash["create_time"]>>}
        /\ nameKeys = (IF Len(hash["name"]) > 0 THEN {hash["name"]} ELSE {})
        /\ tagsKeys = (IF Len(hash["tags"]) > 0 THEN {hash["tags"]} ELSE {})
        /\ DOMAIN versions = {DefaultDatasetVersion}

\* a dataset with a name and two tags was created
C15_Reached ==
    /\ last.op = "create" /\ last.code = 200
    /\ Field(hash, "name", <<>>) = <<"n", "1">> /\ nameKeys = {<<"n", "1">>}
    /\ tagsKeys = {<<"t", "_", "u">>}

---------------------------------------------------------------------------
(* C16 *)

\* C16 as stated: every dataset record whose replica is greater than 0 has at least
\* one entry in share_blob_sources, in every reachable state.
C16_SourcesWhenReplica ==
    (Stored /\ Replica > 0) => Len(Field(hash, "share_blob_sources", <<>>)) >= 1

\* C16: a record may have replica > 0 and no source (from create until the upload),
\* and an update that asks for another replica than the record it read has, and
\* read no source, is rejected with an error before replica_state is written: no
\* call of UpdateDataSetImpl is in a scaling branch without a source.
C16_ScalingNeedsSource ==
    /\ (/\ last.op = "update" /\ last.exit # "get"
        /\ last.wanted > 0 /\ last.wanted # last.replica
        /\ Len(last.sources) < 1)
       => /\ last.path = "adjust" /\ last.exit = "sources"
          /\ last.code = 500 /\ last.err = "errSources"
          /\ ~last.setState /\ last.destroys = <<>>
    /\ \A i \in 1..Len(requests) :
          (requests[i].fn = "UpdateDataSet" /\ requests[i].path \in {"down", "up"})
          => Len(requests[i].old.ShareBlobSources) >= 1

\* a created dataset with replica 1 and no source was asked for another replica
C16_Reached ==
    /\ Stored /\ Replica = 1 /\ Len(Field(hash, "share_blob_sources", <<>>)) = 0
    /\ last.op = "update" /\ last.wanted > 1 /\ last.exit = "sources"

---------------------------------------------------------------------------
(* C17 *)

\* the id is in the creation-time sorted set exactly when its primary hash exists
IndexMatchesHash == (\E e \in zset : e[1] = DataSetID) <=> (DOMAIN hash # {})

\* C17: after any sequence of create, update and delete operations that each
\* report success, the id is a member of the creation-time sorted set if and only if
\* its primary hash exists.  Stated for the behaviours in which no call failed, at
\* the answer of a request with no other request in flight.
C17_ZsetIffHash ==
    (/\ last.op \in {"create", "update", "delete"} /\ last.code = 200
     /\ faults = 0 /\ requests = <<>>)
    => IndexMatchesHash

\* an update that was answered 200 left a primary hash for an id that is not in the
\* creation-time sorted set, with no failed call
C17_Reached ==
    /\ faults = 0 /\ last.op = "update" /\ last.code = 200 /\ requests = <<>>
    /\ DOMAIN hash # {} /\ zset = {}

---------------------------------------------------------------------------
(* C18 *)

\* C18: after a delete that was answered 200, whatever successful updates came
\* before it, no name-prefix key and no tag-prefix key of the id remains, the id is
\* not in the creation-time sorted set and the primary hash is gone.  Stated for
\* the behaviours in which no call failed, with no other request in flight.
C18_DeleteRemovesIndexes ==
    (last.op = "delete" /\ last.code = 200 /\ faults = 0 /\ requests = <<>>) =>
        /\ nameKeys = {}
        /\ tagsKeys = {}
        /\ zset = {}
        /\ hash = NoHash

\* a dataset was deleted with success and no call had failed
C18_Reached ==
    /\ last.op = "delete" /\ last.code = 200 /\ faults = 0 /\ requests = <<>>
    /\ hash = NoHash

---------------------------------------------------------------------------
(* C19 *)

\* C19: a delete that was answered 200 also removes every version record of the
\* dataset and its replica host list key, so that a read of the replica directory
\* reports a missing key afterwards.
C19_DeleteRemovesVersionsAndHosts ==
    (last.op = "delete" /\ last.code = 200 /\ requests = <<>>) =>
        /\ versions = NoVersions
        /\ ~replicaKey.exists
        /\ getReplicaHostsExists(replicaKey, FALSE) = "errNoReplicaKey"

\* an uploaded dataset, which has a replica host list and versions, was deleted
C19_Reached ==
    /\ last.op = "delete" /\ last.code = 200 /\ requests = <<>>
    /\ hash = NoHash /\ replicaKey.exists /\ DefaultDatasetVersion \in DOMAIN versions

---------------------------------------------------------------------------
(* C20 *)

\* C20: get and update on an id that has no primary hash return an error, and such
\* an update writes no field and no key for that id.  Stated for the step that
\* answers the request.
C20_MissingIdRejected ==
    [][(hash = NoHash /\ last'.op \in {"get", "update"})
       => /\ last'.code # 200 /\ last'.err # ""
          /\ hash' = NoHash
          /\ nameKeys' = nameKeys /\ tagsKeys' = tagsKeys
          /\ UNCHANGED <<zset, replicaKey, versions, updates>>]_vars

\* a get of an id that was never created was answered 200 with an empty record
C20_Reached ==
    /\ hash = NoHash /\ ~idUsed /\ faults = 0
    /\ last.op = "get" /\ last.code = 200 /\ last.replica = 0

---------------------------------------------------------------------------
(* C21 *)

\* C21: after every update that was answered 200 the dataset has one name-prefix
\* key, that of the current name of the record, and one tag-prefix key, that of its
\* current joined tags (none for an empty name or an empty tag list): a changed
\* name or tag list leaves no prefix key of the old value.  Stated for the records
\* create has written, in the behaviours in which no call failed, with no other
\* request in flight.
C21_PrefixKeysFollowRecord ==
    (last.op = "update" /\ last.code = 200 /\ Stored /\ faults = 0 /\ requests = <<>>) =>
        /\ nameKeys = (IF Len(Field(hash, "name", <<>>)) > 0 THEN {hash["name"]} ELSE {})
        /\ tagsKeys = (IF Len(Field(hash, "tags", <<>>)) > 0 THEN {hash["tags"]} ELSE {})

\* an update that changed the name of a created dataset was answered 200
C21_Reached ==
    /\ last.op = "update" /\ last.code = 200 /\ Stored /\ faults = 0 /\ requests = <<>>
    /\ Field(hash, "name", <<>>) = <<"n", "2">> /\ <<"n", "1">> \in nameKeys

---------------------------------------------------------------------------
(* C22 *)

\* C22: for every record create accepts, a get of the returned id right after the
\* create yields the submitted name, desc, cache_strategy and tag list, for the
\* empty tag list too, and the submitted replica (1 for a replica of 0, which
\* create stores as 1).
C22_CreateGetRoundTrip ==
    (last.op = "create" /\ last.code = 200 /\ requests = <<>>) =>
        LET g == GetDataSetImpl(hash, DataSetID, FALSE) IN
        /\ g.err = ""
        /\ g.info.Name = last.form.name /\ g.info.Desc = last.form.desc
        /\ g.info.CacheStrategy = last.form.cs
        /\ g.info.Replica = (IF last.form.replica <= 0 THEN 1 ELSE last.form.replica)
        /\ g.info.Tags = last.form.tags

\* a get returned one empty tag for a dataset created with an empty tag list
C22_Reached ==
    /\ last.op = "get" /\ last.code = 200 /\ Stored /\ faults = 0
    /\ hash["tags"] = <<>> /\ tagsKeys = {} /\ last.got = << <<>> >>

---------------------------------------------------------------------------
(* GET /:id next to the scale operations *)

NextObserve == Next \/ Get

SpecObserve == InitNoFaults /\ [][NextObserve]_vars

\* C23: a get of a stored dataset that is answered 200 returns the replica_state
\* the store holds at that moment: ScaleUP or ScaleDown while a scale operation is
\* in progress, and NoScale only when the stored state is NoScale.
C23_GetReturnsStoredState ==
    (last.op = "get" /\ last.code = 200 /\ Stored) => last.state = ReplicaState

\* a get was answered while a scale-up goroutine was running with the stored state
\* ScaleUP
C23_Reached ==
    /\ last.op = "get" /\ last.code = 200 /\ Stored
    /\ workers # <<>> /\ ReplicaState = ReplicaScaleUP

---------------------------------------------------------------------------
(* C26 *)

\* the last step was the deferred reset of a goroutine that ran to its end, started
\* by the scale-up that followed a scale-down to its end of a quiescent dataset
\* (nothing in flight, replica_state NoScale) and asked for the replica count the
\* dataset had before, with no other request for the dataset in between
RoundTripDone ==
    /\ last.op = "worker" /\ last.path = "versions" /\ last.exit = "ok"
    /\ last.resetIssued
    /\ last.orig # NoHash /\ last.wanted = last.orig["replica"]
    /\ Field(last.orig, "replica_state", ReplicaNoScale) = ReplicaNoScale

\* the record without the field f
Without(h, fs) == [f \in DOMAIN h \ fs |-> h[f]]

\* C26: a scale-down of a quiescent dataset from replica r to w < r that ran to its
\* end, followed by a scale-up back to r whose goroutine ran to its end, leaves a
\* record that equals the original one in every field but share_blob_caches and
\* update_time; replica is r, share_blob_caches has r entries, and they are the
\* entries of the original share_blob_caches in some order.
C26_RoundTripSameCaches ==
    RoundTripDone
    => /\ Without(hash, {"share_blob_caches", "update_time"})
          = Without(last.orig, {"share_blob_caches", "update_time"})
       /\ Replica = last.orig["replica"]
       /\ Len(ShareBlobCaches) = last.orig["replica"]
       /\ Range(ShareBlobCaches) = Range(last.orig["share_blob_caches"])

\* C26, with the cache entries the scale-up adds naming the hosts it selected: the
\* record equals the original one in every field but share_blob_caches, update_time
\* and replica_state; replica_state is NoScale, or ScaleUp when the store rejected
\* the reset of the goroutine; replica is r and share_blob_caches has r entries: the
\* first w are the first w of the original list, the others are the entries of the
\* hosts the scale-up selected, which are pairwise distinct replicable seed peers
\* outside the replica host list the scale-up read.
C26_RoundTrip ==
    RoundTripDone
    => /\ Without(hash, {"share_blob_caches", "update_time", "replica_state"})
          = Without(last.orig, {"share_blob_caches", "update_time", "replica_state"})
       /\ ReplicaState = (IF last.resetOk THEN ReplicaNoScale ELSE ReplicaScaleUP)
       /\ Replica = last.orig["replica"]
       /\ Len(ShareBlobCaches) = last.orig["replica"]
       /\ Len(last.C) < last.orig["replica"]
       /\ last.C = SubSeq(last.orig["share_blob_caches"], 1, Len(last.C))
       /\ ShareBlobCaches = last.C \o CacheEndpoints(last.N)
       /\ Cardinality(Range(last.N)) = Len(last.N)
       /\ Range(last.N) \subseteq ReplicableAddresses(Schedulers) \ Range(last.H)

\* a dataset was scaled down from 2 to 1 and up to 2 again
C26_Reached ==
    /\ RoundTripDone
    /\ last.orig["replica"] = 2 /\ last.wanted = 2
    /\ Len(last.C) = 1 /\ Replica = 2

---------------------------------------------------------------------------
(* C27 *)

\* the step is the Set of the truncated list in selectScaleDownReplicaHosts
DirWriteStep == last'.op = "call" /\ last'.path = "down" /\ last'.exit = "dirWrite"

\* C27: a scale-down sends a destroy call only after it has written the truncated
\* replica directory: the write puts the first wanted hosts of the list it read in
\* the store, and a scale-down whose write failed leaves the directory as it was,
\* goes to its return and sends no destroy call.
C27_DirectoryBeforeDestroy ==
    /\ [](\A i \in 1..Len(requests) :
             (requests[i].fn = "UpdateDataSet" /\ requests[i].path = "down")
             => /\ (requests[i].pc = "destroy" \/ requests[i].destroys # <<>>)
                   => "dir" \in requests[i].phases
                /\ (requests[i].exit = "select" /\ requests[i].err # "")
                   => requests[i].destroys = <<>>)
    /\ [](ScaledDown => /\ last.destroys # <<>> => "dir" \in last.phases
                        /\ last.exit = "select" => last.destroys = <<>>)
    /\ [][DirWriteStep =>
             /\ "dir" \in last'.phases <=> last'.err # "errStore"
             /\ last'.err = "errStore"
                => /\ replicaKey' = replicaKey
                   /\ requests'[last'.k].pc = "reset"
             /\ (last'.err # "errStore" /\ Len(last'.H) >= last'.wanted)
                => replicaKey' = HostsKey(SubSeq(last'.H, 1, last'.wanted))]_vars

\* a scale-down destroyed the dataset on a seed peer
C27_Reached ==
    /\ ScaledDown /\ last.destroys # <<>> /\ "dir" \in last.phases
    /\ Len(last.H) > last.wanted

---------------------------------------------------------------------------
(* C28 *)

\* the goroutine that takes the step
Stepping == workers[last'.k]

\* the step changes a field of the record other than replica_state
RecordStep == Without(hash, {"replica_state"}) # Without(hash', {"replica_state"})

\* C28: within one update that changes replica the store is written in the order
\* replica directory, dataset record, version records, in a scale-down and in a
\* scale-up alike.  A scale-down that changes the record (replica_state apart) has
\* written the truncated directory, and one that changes a version has patched the
\* record; a goroutine of a scale-up that changes the record has written the
\* directory of the old and the new hosts, and one that changes a version has
\* patched the record.
C28_DirectoryRecordVersions ==
    [][/\ (last'.op \in {"call", "update"} /\ last'.path = "down") =>
            /\ RecordStep => "dir" \in last'.phases
            /\ versions' # versions => "record" \in last'.phases
       /\ last'.op = "worker" =>
            /\ RecordStep => replicaKey.hosts = Stepping.E \o Stepping.N
            /\ versions' # versions => Stepping.pc = "version"]_vars

\* the step writes the replica directory, a field of the record other than
\* replica_state, or a version
ReplicaWrite == RecordStep \/ replicaKey' # replicaKey \/ versions' # versions

\* C28, with the order of the scale-up as its goroutine has it: a scale-down writes
\* the directory, then the record, then the versions; the goroutine of a scale-up
\* patches the record first, writes the directory only after the patch, and changes
\* the versions only after the directory.  In both, replica_state is written before
\* any of these writes and the write of NoScale is issued after them: a scale-down
\* makes them between its write of ScaleDown and its deferred reset, with which it
\* returns; the request of a scale-up makes none of them and starts its goroutine
\* after its write of ScaleUp, and the goroutine makes none from its deferred reset
\* on.
C28_WriteOrder ==
    [][/\ (last'.op \in {"call", "update"} /\ last'.path = "down") =>
            /\ RecordStep => ("dir" \in last'.phases /\ "record" \notin requests[last'.k].phases)
            /\ replicaKey' # replicaKey => (last'.exit = "dirWrite" /\ "record" \notin last'.phases)
            /\ versions' # versions => ("record" \in last'.phases /\ last'.exit = "version")
            /\ ReplicaWrite => (requests[last'.k].setState /\ ~last'.resetIssued)
            /\ last'.exit = "state" => (~ReplicaWrite /\ requests[last'.k].phases = {})
            /\ (last'.exit = "state" /\ last'.err = "") => ReplicaState' = ReplicaScaleDown
            /\ last'.resetIssued => (last'.op = "update" /\ ~ReplicaWrite)
       /\ (last'.op \in {"call", "update"} /\ last'.path = "up") =>
            /\ ~ReplicaWrite
            /\ (last'.exit = "state" /\ last'.err = "") => ReplicaState' = ReplicaScaleUP
            /\ Len(workers') > Len(workers) => requests[last'.k].setState
       /\ last'.op = "worker" =>
            /\ RecordStep => Stepping.pc = "patch"
            /\ replicaKey' # replicaKey => Stepping.pc = "dir"
            /\ versions' # versions => Stepping.pc = "version"
            /\ last'.resetIssued <=> Stepping.pc = "reset"
            /\ Stepping.pc = "reset" =>
                   \/ workers' = RemoveAt(workers, last'.k)
                   \/ workers'[last'.k].pc = "crash"
            /\ Stepping.pc = "crash" => workers' = <<>>
            /\ (Stepping.pc \notin {"reset", "crash"} /\ workers'[last'.k].pc = "dir") =>
                   (Stepping.pc = "patch" /\ Stepping.j = Len(Stepping.ops))
            /\ (Stepping.pc \notin {"reset", "crash"} /\ workers'[last'.k].pc \in {"list", "version"}) =>
                   Stepping.pc \in {"dir", "list", "version"}
            /\ (Stepping.pc = "dir" /\ workers'[last'.k].pc = "list") =>
                   replicaKey' = HostsKey(Stepping.E \o Stepping.N)]_vars

\* the goroutine of a scale-up has patched the record and written the directory and
\* is about to change the versions
C28_Reached ==
    /\ last.op = "worker" /\ last.path = "dir" /\ last.exit = ""
    /\ workers # <<>> /\ workers[1].pc = "list"
    /\ Replica = last.wanted /\ replicaKey.hosts = last.H \o last.N

---------------------------------------------------------------------------
(* C29 *)

\* C29: a scale-down to w replicas that ran to its end leaves every version of the
\* dataset with the first w entries of the meta_caches the version had before, in
\* their order (all of them when the version had fewer than w).  Stated for the
\* scale-downs of a quiescent dataset that no other request ran beside, against
\* the versions the scale-down listed.
C29_VersionsTruncated ==
    (ScaledDownOk /\ last.orig # NoHash) =>
        /\ DOMAIN versions = {last.listed[i].id : i \in 1..Len(last.listed)}
        /\ \A i \in 1..Len(last.listed) :
              versions[last.listed[i].id].meta_caches
                  = SubSeq(last.listed[i].info.meta_caches, 1,
                           Min(last.wanted, Len(last.listed[i].info.meta_caches)))

\* a scale-down to 1 ran to its end on a dataset with a version of two cache entries
C29_Reached ==
    /\ ScaledDownOk /\ last.orig # NoHash /\ last.code = 200 /\ last.wanted = 1
    /\ \E id \in DOMAIN versions : Len(versions[id].meta_caches) = 1
    /\ Len(last.C) = 2 /\ last.destroys # <<>>

---------------------------------------------------------------------------
(* C30 *)

\* C30: an update that entered the scale-up branch and started a goroutine selected
\* wanted - current hosts, pairwise distinct, each replicable and none in the
\* replica host list it read; when fewer such hosts exist the update returns an
\* error, is not answered 200, leaves replica_state NoScale and starts no goroutine.
C30_ScaleUpSelection ==
    (last.op = "update" /\ last.path = "up" /\ last.setState) =>
        /\ last.exit = "spawn" =>
              /\ workers # <<>>
              /\ Len(workers[Len(workers)].N) = last.wanted - last.replica
              /\ NoDuplicates(workers[Len(workers)].N)
              /\ Range(workers[Len(workers)].N) \subseteq ReplicableAddresses(Schedulers) \ Range(last.H)
        /\ Cardinality(ReplicableAddresses(Schedulers) \ Range(last.H)) < last.wanted - last.replica =>
              /\ last.exit = "select" /\ last.err # "" /\ last.code # 200
              /\ (last.resetOk => ReplicaState = ReplicaNoScale)
              /\ last.resetIssued

\* an update asked for more replicas than there are replicable seed peers outside
\* the replica host list
C30_Reached ==
    /\ last.op = "update" /\ last.path = "up" /\ last.setState /\ last.exit = "select"
    /\ Cardinality(ReplicableAddresses(Schedulers) \ Range(last.H)) < last.wanted - last.replica
    /\ last.selErr = "errReplicableCount" /\ last.code = 200

---------------------------------------------------------------------------
(* C31 *)

\* the goroutine stands in the loop over its hosts: before the cache call, before
\* the GET of a polling round, or before the repeated GET
InLoop(w) == w.pc \in {"cache", "poll", "poll2"}

\* C31: a scale-up goroutine works on its hosts in order: while it is at host i it
\* holds the endpoints of exactly the hosts before i, and a cache call goes to host i
\* only; the step in which a host fails for good (its second attempt failed, at the
\* cache call, the GET or the repeated GET, or a reply made the goroutine panic)
\* ends the loop: the goroutine writes nothing in that step and calls no later host;
\* what it still does is its deferred reset, which leaves every field of the record
\* but replica_state, the replica directory and the versions as they were, and after
\* which it is gone or, after a panic, ends the process without a write.
C31_SequentialAbort ==
    /\ [](\A k \in 1..Len(workers) :
             InLoop(workers[k])
             => /\ workers[k].i \in 1..Len(workers[k].N)
                /\ workers[k].got = CacheEndpoints(SubSeq(workers[k].N, 1, workers[k].i - 1)))
    /\ [][(last'.op = "worker" /\ InLoop(Stepping) /\ last'.exit \in {"stop", "panic"})
          => /\ workers'[last'.k].pc = "reset"
             /\ workers'[last'.k].got = Stepping.got
             /\ workers'[last'.k].i = Stepping.i
             /\ UNCHANGED <<hash, replicaKey, versions>>]_vars
    /\ [][(last'.op = "worker" /\ ~InLoop(Stepping) /\ Stepping.pc \notin {"reset", "crash"})
          => (Len(workers') = Len(workers) => ~InLoop(workers'[last'.k]))]_vars
    /\ [][(last'.op = "worker" /\ Stepping.pc = "reset")
          => /\ IF Stepping.exit = "panic"
                THEN workers' = [workers EXCEPT ![last'.k] = [Stepping EXCEPT !.pc = "crash"]]
                ELSE workers' = RemoveAt(workers, last'.k)
             /\ Without(hash', {"replica_state"}) = Without(hash, {"replica_state"})
             /\ UNCHANGED <<replicaKey, versions>>]_vars
    /\ [][(last'.op = "worker" /\ Stepping.pc = "crash")
          => (workers' = <<>> /\ UNCHANGED <<hash, replicaKey, versions>>)]_vars

\* a goroutine with two hosts to cache has ended at the first one, the second was
\* never called
C31_Reached ==
    /\ last.op = "worker" /\ last.path \in {"cache", "poll"} /\ last.exit = "failed"
    /\ last.resetIssued
    /\ Len(last.N) = 2 /\ last.got = <<>> /\ workers = <<>>

---------------------------------------------------------------------------
(* C32 *)

\* the goroutine w without the answer of its last GET
Attempting(w) == [w EXCEPT !.reply = ""]

\* C32: the cache-then-poll sequence is attempted at most twice for a host: a
\* goroutine is at its first or second attempt; a step of a goroutine in the loop
\* over its hosts either moves it from the first attempt to the second after an
\* error (same host, back at the cache call), or adds the endpoint its polling
\* returned, at either attempt, and goes on with the next host at a first attempt,
\* or leaves host and attempt as they are (the cache call accepted, a GET to be
\* repeated, a transfer still running); the goroutine gives a host up, and ends,
\* only in a step at its second attempt.
C32_TwoAttempts ==
    /\ [](\A k \in 1..Len(workers) : workers[k].attempt \in {1, 2})
    /\ [][(last'.op = "worker" /\ InLoop(Stepping))
          => \/ /\ last'.exit = "retry" /\ last'.err = "errSeedPeer"
                /\ Stepping.attempt = 1
                /\ Attempting(workers'[last'.k])
                   = Attempting([Stepping EXCEPT !.attempt = 2, !.pc = "cache"])
             \/ /\ last'.path = "poll" /\ last'.exit = "done" /\ last'.err = ""
                /\ workers'[last'.k].got = Append(Stepping.got, CacheEndpoint(Stepping.N[Stepping.i]))
                /\ workers'[last'.k].i = Stepping.i + 1
                /\ workers'[last'.k].attempt = 1
             \/ /\ last'.path = "cache" /\ last'.exit = "" /\ last'.err = ""
                /\ Attempting(workers'[last'.k]) = Attempting([Stepping EXCEPT !.pc = "poll"])
             \/ /\ last'.path = "poll" /\ last'.exit = "repeat" /\ last'.err = ""
                /\ Stepping.pc = "poll"
                /\ Attempting(workers'[last'.k]) = Attempting([Stepping EXCEPT !.pc = "poll2"])
             \/ /\ last'.path = "poll" /\ last'.exit = "again" /\ last'.err = ""
                /\ Attempting(workers'[last'.k]) = Attempting([Stepping EXCEPT !.pc = "poll"])
             \/ /\ workers'[last'.k].pc = "reset"
                /\ Stepping.attempt = 2]_vars

\* a goroutine at its first attempt for a host got a 2xx reply to its GET whose body
\* has no StatusCode (or, with StatusCode 0, no endpoint): it panicked, and after
\* its deferred reset the process has ended
C32_Reached ==
    /\ Crashed
    /\ last.op = "worker" /\ last.path = "poll" /\ last.exit = "crash" /\ last.err = "panic"
    /\ last.attempt = 1 /\ last.reply = "2xx" /\ last.got = <<>>

---------------------------------------------------------------------------
(* C33 *)

\* C33: a GET of the polling loop that fails, by a transport error or by a status
\* outside 2xx, and that is the first of its round, does not end the polling with
\* an error: the GET is repeated.
C33_SingleFailureRetried ==
    [][(/\ last'.op = "worker" /\ last'.path = "poll" /\ Stepping.pc = "poll"
        /\ last'.reply \in {"err", "non2xx"})
       => (last'.err = "" /\ workers'[last'.k].pc = "poll2")]_vars

\* the first GET of a round failed in transport: the call of scaleUpSeedPeerDataset
\* has returned the error and the goroutine is back at the cache call
C33_Reached ==
    /\ last.op = "worker" /\ last.path = "poll" /\ last.exit = "retry"
    /\ last.reply = "err" /\ last.err = "errSeedPeer" /\ faults = 1
    /\ Len(workers) = 1 /\ workers[1].pc = "cache" /\ workers[1].attempt = 2

---------------------------------------------------------------------------
(* C36 *)

\* C36: when a scale-down that sent destroy calls is followed by the directory
\* write of a scale-up goroutine that was started before it (the goroutine had
\* cached its hosts before the destroys), no host that was sent a destroy call is
\* in the replica directory afterwards.
C36_DestroyedHostsStayOut ==
    [][(/\ last.op = "update" /\ ScaledDownOk /\ last.destroys # <<>>
        /\ last'.op = "worker" /\ last'.path = "dir" /\ last'.err = "")
       => Range(last.destroys) \cap Range(replicaKey'.hosts) = {}]_vars

\* the goroutine has written the directory it read before a scale-down ran: the
\* directory lists more hosts than the record has replicas
C36_Reached ==
    /\ last.op = "worker" /\ last.path = "dir" /\ last.err = ""
    /\ replicaKey.hosts = last.H \o last.N
    /\ Replica < Len(last.H)

---------------------------------------------------------------------------
(* Concurrent replica changes: behaviours in which no call fails, with up to    *)
(* MaxRacing + 1 updates of which up to MaxRacing start a scale-up goroutine,   *)
(* so that two goroutines are in flight at a time.                              *)

MaxRacing == 2

\* a dataset is created with one replica
CreateRace ==
    \/ CreateDataSet(<<>>, "", 1, "", <<>>, FALSE, FALSE)
    \/ \E k \in 1..Len(requests) : CreateStep(k, FALSE)

\* and uploaded to the first seed peer
ImportRace ==
    \E vs \in ImportedVersions(SubSeq(UploadOrder, 1, 1)) :
        /\ DOMAIN vs = {DefaultDatasetVersion}
        /\ ImportDataSet(<<UrchinEndpoint("s3", <<"b", ".", "o">>)>>, UploadOrder, vs)

\* updates that ask for a replica count; the shuffle of the replicable seed peers
\* returns them in any order
UpdateRace ==
    \/ \E wanted \in 1..MaxRacing :
          UpdateBegin(Patch(<<>>, "", wanted, "", <<>>, <<>>), FALSE, MaxRacing, MaxRequests,
                      MaxRacing + 1)
    \/ \E k \in 1..Len(requests) :
          \/ UpdateState(k, FALSE)
          \/ UpdateDirExists(k, FALSE)
          \/ UpdateDirRead(k, FALSE)
          \/ UpdateDirWrite(k, FALSE)
          \/ UpdatePatch(k, FALSE)
          \/ UpdateVersion(k, FALSE)
          \/ UpdateDestroy(k, FALSE)
          \/ UpdateReset(k, FALSE)
          \/ UpdateUnset(k, FALSE)
          \/ \E order \in VersionOrders(versions) : UpdateList(k, order, FALSE)
          \/ \E perm \in Replicable : UpdateSelect(k, perm, FALSE, FALSE, MaxRacing)

NextRace == CreateRace \/ ImportRace \/ UpdateRace \/ Work

SpecRace == InitNoFaults /\ [][NextRace]_vars

---------------------------------------------------------------------------
(* C34 *)

\* the step is the first of a call of UpdateDataSetImpl: GetDataSetImpl and the checks
\* that follow it
BeginStep == last'.op \in {"call", "update"} /\ last'.exit \in {"get", "sources", "bucket"}

\* the record as it would be stored with replica_state NoScale
AtNoScale(h) == IF HasField(h, "replica_state") THEN setReplicaState(h, ReplicaNoScale, FALSE) ELSE h

\* C34: an update is taken up without regard to the stored replica_state: its first
\* step returns the error and takes the branch that the same call would with
\* replica_state at NoScale, its write of replica_state is made whatever the stored
\* state is, and the goroutine is started when the host selection returns hosts,
\* also while a goroutine of an earlier scale-up is in flight.
C34_StateIsAdvisory ==
    [][/\ BeginStep =>
            LET g == GetDataSetImpl(AtNoScale(hash), DataSetID, FALSE)
                path == UpdatePath(Patch(<<>>, "", last'.wanted, "", <<>>, <<>>), g.info)
            IN  /\ g.err = ""
                /\ last'.replica = g.info.Replica
                /\ IF path \in {"errSources", "errBucket"}
                   THEN last'.op = "update" /\ last'.path = "adjust" /\ last'.err = path
                   ELSE last'.op = "call" /\ last'.path = path /\ last'.err = ""
       /\ (last'.op = "call" /\ last'.exit = "state") =>
            ReplicaState' = (IF last'.path = "down" THEN ReplicaScaleDown ELSE ReplicaScaleUP)
       /\ (last'.op \in {"call", "update"} /\ last'.path = "up"
           /\ last'.exit \in {"select", "spawn"} /\ requests[last'.k].pc = "select") =>
            (last'.exit = "spawn" /\ Len(workers') = Len(workers) + 1) <=> (last'.selErr = "")]_vars

\* two updates have each stored ScaleUp and started a goroutine, and both goroutines
\* are in flight
C34_Reached ==
    /\ last.op = "update" /\ last.path = "up" /\ last.exit = "spawn" /\ last.code = 200
    /\ last.setState /\ ReplicaState = ReplicaScaleUP
    /\ Len(workers) = 2 /\ started = 2

---------------------------------------------------------------------------
(* C35 *)

\* C35 as stated: while a scale-up goroutine is in flight the stored replica_state
\* is ScaleUp.
C35_WorkerMeansScaleUp ==
    workers # <<>> => ReplicaState = ReplicaScaleUP

\* C35: an update that starts a scale-up goroutine has written ScaleUp to
\* replica_state before; replica_state leaves ScaleUp, with or without a goroutine
\* in flight, only in a step of another replica change: the write of ScaleDown or
\* the reset of a scale-down, the reset after a failed host selection, or the
\* return of a goroutine.
C35_ScaleUpUntilOtherChange ==
    [][/\ (last'.op = "call" /\ last'.path = "up" /\ last'.exit = "state")
          => ReplicaState' = ReplicaScaleUP
       /\ Len(workers') > Len(workers)
          => (requests[last'.k].path = "up" /\ requests[last'.k].setState)
       /\ (ReplicaState = ReplicaScaleUP /\ ReplicaState' # ReplicaScaleUP)
          => \/ /\ last'.op = "call" /\ last'.path = "down" /\ last'.exit = "state"
                /\ ReplicaState' = ReplicaScaleDown
             \/ /\ last'.op = "update" /\ last'.path = "down" /\ last'.resetOk
                /\ ReplicaState' = ReplicaNoScale
             \/ /\ last'.op = "update" /\ last'.path = "up" /\ last'.exit = "select"
                /\ last'.resetOk /\ ReplicaState' = ReplicaNoScale
             \/ /\ last'.op = "worker" /\ Len(workers') < Len(workers)
                /\ last'.resetOk /\ ReplicaState' = ReplicaNoScale]_vars

\* a scale-down has run and reset replica_state to NoScale while the goroutine of a
\* scale-up is still in flight
C35_Reached ==
    /\ workers # <<>> /\ ReplicaState = ReplicaNoScale
    /\ last.op = "update" /\ last.path = "down" /\ last.resetIssued /\ last.resetOk

---------------------------------------------------------------------------
(* Datasets whose origin copy is registered by a call of the exported            *)
(* UpdateDataSetImpl with shareBlobSources: they have sources and no replica      *)
(* directory.  The handler UpdateDataSet passes no sources; the callers that do   *)
(* are outside this package.                                                      *)

\* UpdateDataSetImpl(dataSetID, "", "", 0, "", nil, sources, nil)
PatchSources ==
    \E sources \in SourceChoices :
        UpdateBegin(Patch(<<>>, "", 0, "", <<>>, sources), FALSE, MaxWorkers, MaxRequests,
                    MaxUpdates)

NextSources == Create \/ Import \/ PatchSources \/ Update \/ Work

SpecSources == InitNoFaults /\ [][NextSources]_vars

---------------------------------------------------------------------------
(* C40 *)

\* C40: an update that asks for more replicas than are stored, for a dataset that
\* has no replica directory key, with enough replicable seed peers and no failing
\* call, starts the scale-up goroutine (which writes the key when it completes).
C40_FirstScaleUpCreatesKey ==
    [][(/\ last'.op = "update" /\ last'.path = "up"
        /\ ~replicaKey.exists
        /\ faults' = faults
        /\ last'.wanted <= Cardinality(ReplicableAddresses(Schedulers)))
       => last'.exit = "spawn"]_vars

\* a scale-up of a dataset without a directory key was refused with the error of
\* the missing key, no call had failed, and the key still does not exist
C40_Reached ==
    /\ last.op = "update" /\ last.path = "up" /\ last.exit = "select"
    /\ last.selErr = "errNoReplicaKey" /\ last.code = 200
    /\ ~replicaKey.exists /\ workers = <<>>

---------------------------------------------------------------------------
(* Repeated replica changes of one dataset: the dataset is created with one       *)
(* replica and uploaded to the first seed peer, and one more call of            *)
(* UpdateDataSetImpl is made than under Spec, one scale-up goroutine at a time;  *)
(* calls may fail as under Spec.                                                *)

UpdateRepeat ==
    \/ \E wanted \in Wanted :
          UpdateBegin(Patch(<<>>, "", wanted, "", <<>>, <<>>), FALSE, MaxWorkers, MaxRequests,
                      MaxUpdates + 1)
    \/ \E k \in 1..Len(requests) : UpdateStep(k, MaxWorkers)

NextRepeat == CreateRace \/ ImportRace \/ UpdateRepeat \/ Work

SpecRepeat == Init /\ [][NextRepeat]_vars

---------------------------------------------------------------------------
(* ListDataSets *)

\* largest number of ephemeral sets the listings build
MaxTmpSets == 2

\* the clock readings of the listing requests: one in each of two 20-second
\* buckets.  Both lie within the 120 s the ephemeral sets live.
ListTimes == <<1, 21>>

\* fmt.Sprint of an integer: its decimal digits, with a sign when it is negative
RECURSIVE Digits(_)
Digits(n) == IF n < 10 THEN <<(<<"0", "1", "2", "3", "4", "5", "6", "7", "8", "9">>)[n + 1]>>
             ELSE Digits(n \div 10) \o Digits(n % 10)

Sprint(n) == IF n < 0 THEN <<"-">> \o Digits(0 - n) ELSE Digits(n)

Query(searchKey, orderBy, sortBy, createdAtLess, createdAtGreater) ==
    [searchKey |-> searchKey, orderBy |-> orderBy, sortBy |-> sortBy,
     createdAtLess |-> createdAtLess, createdAtGreater |-> createdAtGreater,
     pageIndex |-> 0, pageSize |-> 10]

\* the forms of GET /datasets: one page that holds every dataset; without
\* parameters, descending with a creation-time filter, ordered by name without and
\* with a filter, and searches for a name, for a part of a name, for a letter of a
\* tag, for a string nothing contains, and for a name with a filter.  The search
\* for "n" with sort_by 11 and the search for "n1" with sort_by 1 have the same
\* concatenation of form values.
ListQueries ==
    { Query(<<>>, <<>>, 1, 0, 0),
      Query(<<>>, <<>>, -1, 0, 5),
      Query(<<>>, <<"n", "a", "m", "e">>, 1, 0, 0),
      Query(<<>>, <<"n", "a", "m", "e">>, 1, 5, 0),
      Query(<<"n", "1">>, <<>>, 1, 0, 0),
      Query(<<"n">>, <<>>, 11, 0, 0),
      Query(<<"t">>, <<>>, 1, 0, 0),
      Query(<<"z", "z">>, <<>>, 1, 0, 0),
      Query(<<"n", "1">>, <<>>, 1, 0, 5) }

\* the name of the ephemeral set of a query at clock reading t: the form values
\* written one after the other without a separator (the MD5 digest of that string
\* stands for the string), and the start of the 20-second bucket
getCacheSortSet(q, t) ==
    << q.searchKey \o q.orderBy \o Sprint(q.sortBy) \o Sprint(q.createdAtLess)
          \o Sprint(q.createdAtGreater),
       t - ((t % 60) % 20) >>

\* the members of the sorted set with a score in [lower, upper]
ZRangeByScore(z, lower, upper) == {m[1] : m \in {x \in z : lower <= x[2] /\ x[2] <= upper}}

MatchZSetMemberByCreateTime(createdAtLess, createdAtGreater, z, t) ==
    ZRangeByScore(z, IF createdAtGreater # 0 THEN createdAtGreater ELSE 0,
                     IF createdAtLess # 0 THEN createdAtLess ELSE t + 1)

\* sub occurs in s
Contains(s, sub) == \E i \in 0..(Len(s) - Len(sub)) : SubSeq(s, i + 1, i + Len(sub)) = sub

\* MatchKeysByPrefix with the pattern <prefix>*match_prefix_name:*searchKey* (or
\* ..._tags...) on a keyspace that one Scan call walks over: the ids of the keys of
\* that kind whose last segment contains the search key.  values are the last
\* segments of the keys of the dataset id.
MatchKeysByPrefix(values, searchKey) ==
    IF \E v \in values : Contains(v, searchKey) THEN {DataSetID} ELSE {}

\* InsertSet of one member: the set comes into being with its first member, without
\* a time to live
InsertSet(sets, key, member) ==
    [k \in DOMAIN sets \cup {key} |->
        IF k = key
        THEN [members |-> {member} \cup (IF key \in DOMAIN sets THEN sets[key].members ELSE {}),
              ttl |-> IF key \in DOMAIN sets THEN sets[key].ttl ELSE 0]
        ELSE sets[k]]

\* SetTTL with 120 s: nothing happens when the key does not exist or the call fails
SetTTL(sets, key, fails) ==
    [k \in DOMAIN sets |-> IF k = key /\ ~fails THEN [sets[k] EXCEPT !.ttl = 120] ELSE sets[k]]

\* the page of the members of a set in the order ZRANGEBYSCORE and SORT give them:
\* there is one dataset id
Page(S, offset, count) ==
    SubSeq(IF DataSetID \in S THEN <<DataSetID>> ELSE <<>>, offset + 1,
           IF Cardinality(S) < offset + count THEN Cardinality(S) ELSE offset + count)

\* the query uses an ephemeral set
UsesTmpSet(q) ==
    q.searchKey # <<>> \/ (q.orderBy # <<>> /\ (q.createdAtLess # 0 \/ q.createdAtGreater # 0))

Filtered(q) == q.createdAtLess # 0 \/ q.createdAtGreater # 0

\* history: the answer that came before a listing of the form q; of a listing of
\* another form only that it was one
Before(q) ==
    IF last.op = "list" /\ last.list.q = q
    THEN [op |-> last.op, code |-> last.code, exit |-> last.exit, got |-> last.got,
          list |-> [last.list EXCEPT !.prev = <<>>]]
    ELSE [op |-> last.op, code |-> last.code, exit |-> last.exit, got |-> <<>>, list |-> <<>>]

\* a call of ListDataSets in flight: the form, the call it makes next, the key of the
\* set it sorts, whether it builds the set, the ids it collected, the records it
\* read, and the call of it that failed
ListRequest(q, pc, prev) ==
    [fn |-> "ListDataSets", pc |-> pc, q |-> q, key1 |-> <<>>, key |-> <<>>, rebuilt |-> FALSE,
     failAt |-> "", matchName |-> {}, matchTags |-> {}, match |-> {}, members |-> <<>>,
     mi |-> 1, got |-> <<>>, prev |-> prev]

ListPath(q) == IF q.searchKey = <<>> /\ q.orderBy = <<>> THEN "range" ELSE "sort"

\* what a step of a call of ListDataSets records
ListLast(op, r, exit, code, err) ==
    [Last(op, ListPath(r.q), exit, code, err)
     EXCEPT !.got = r.got,
            !.list = [q |-> r.q, key1 |-> r.key1, key |-> r.key, rebuilt |-> r.rebuilt,
                      failAt |-> r.failAt, prev |-> r.prev]]

\* the listing can bring an ephemeral set into being: the set of the form is missing
\* for a clock reading from now on
MayBuild(q) ==
    /\ UsesTmpSet(q)
    /\ \E i \in 1..Len(ListTimes) :
          ListTimes[i] >= now /\ getCacheSortSet(q, ListTimes[i]) \notin DOMAIN tmpSets

\* the listings in flight that use an ephemeral set
Building ==
    Cardinality({i \in 1..Len(requests) :
                    requests[i].fn = "ListDataSets" /\ UsesTmpSet(requests[i].q)})

\* GET /api/v1/datasets arrives and the form is bound.  MaxTmpSets bounds the
\* ephemeral sets of one behaviour: a listing that could build one more is not
\* taken up.
ListDataSets(q) ==
    LET pc == IF ListPath(q) = "range" THEN "range"
              ELSE IF UsesTmpSet(q) THEN "exists" ELSE "sort"
        r == [ListRequest(q, pc, Before(q)) EXCEPT !.key = IF pc = "sort" THEN <<"zset">> ELSE <<>>]
    IN  /\ ~Crashed
        /\ Len(requests) < MaxRequests
        /\ MayBuild(q) => Cardinality(DOMAIN tmpSets) + Building < MaxTmpSets
        /\ Charge(0)
        /\ Begun(r, ListLast("call", r, "bind", 0, ""))
        /\ UNCHANGED <<build, hash, zset, nameKeys, tagsKeys, replicaKey, versions, workers,
                       started, idUsed, now, call, tmpSets, updates>>

\* the request goes on with the records of members, or is answered when there is none
ListMembers(k, r, members, exit) ==
    IF Len(members) = 0
    THEN Return(k, ListLast("list", r, "ok", 200, ""))
    ELSE Continue(k, [r EXCEPT !.members = members, !.mi = 1, !.pc = "read"],
                  ListLast("call", r, exit, 0, ""))

\* the request is answered 500 after its call at r.pc failed
ListFailed(k, r) ==
    Return(k, ListLast("list", [r EXCEPT !.failAt = r.pc, !.got = <<>>], r.pc, 500, "errStore"))

\* the set is built next: the first InsertSet, or SetTTL when nothing matched
ListBuild(r, match) ==
    [r EXCEPT !.match = match, !.pc = IF match = {} THEN "ttl" ELSE "insert"]

\* the next store call of ListDataSets
ListStep(k, fails) ==
    LET r == requests[k]
        q == r.q
        key == getCacheSortSet(q, now)
        byTime == MatchZSetMemberByCreateTime(q.createdAtLess, q.createdAtGreater, zset, now)
    IN
    /\ r.fn = "ListDataSets"
    /\ Charge(B(fails))
    /\ tmpSets' = IF r.pc = "insert" /\ ~fails THEN InsertSet(tmpSets, key, DataSetID)
                  ELSE IF r.pc = "ttl"
                  THEN SetTTL(tmpSets, IF r.match = {} THEN key ELSE r.key, fails)
                  ELSE tmpSets
    /\ CASE r.pc = "range" ->
              \* ZRangeByScore or ZRevRangeByScore of the creation-time sorted set
              IF fails THEN ListFailed(k, r)
              ELSE ListMembers(k, r, Page(byTime, q.pageIndex, q.pageSize), "range")
         [] r.pc = "exists" ->
              \* Exists of the ephemeral set: an error counts as a missing set
              LET e == [r EXCEPT !.key1 = key, !.key = key,
                                 !.failAt = IF fails THEN "exists" ELSE ""]
              IN  IF ~fails /\ key \in DOMAIN tmpSets
                  THEN Continue(k, [e EXCEPT !.pc = "sort"], ListLast("call", e, "exists", 0, ""))
                  ELSE Continue(k, [e EXCEPT !.rebuilt = TRUE,
                                             !.pc = IF q.searchKey # <<>> THEN "scanName"
                                                    ELSE "byTime"],
                                ListLast("call", e, "exists", 0, IF fails THEN "errStore" ELSE ""))
         [] r.pc = "scanName" ->
              IF fails THEN ListFailed(k, r)
              ELSE Continue(k, [r EXCEPT !.matchName = MatchKeysByPrefix(nameKeys, q.searchKey),
                                         !.pc = "scanTags"],
                            ListLast("call", r, "scanName", 0, ""))
         [] r.pc = "scanTags" ->
              IF fails THEN ListFailed(k, r)
              ELSE LET s == [r EXCEPT !.matchTags = MatchKeysByPrefix(tagsKeys, q.searchKey)]
                       r2 == IF Filtered(q) THEN [s EXCEPT !.pc = "byTime"]
                             ELSE ListBuild(s, s.matchName \cup s.matchTags)
                   IN  Continue(k, r2, ListLast("call", r2, "scanTags", 0, ""))
         [] r.pc = "byTime" ->
              \* MatchZSetMemberByCreateTime: the first ZRangeByScore, which returns every
              \* member in the range; the loop goes on when it returned one
              IF fails THEN ListFailed(k, r)
              ELSE LET r2 == IF byTime = {} THEN ListBuild(r, {})
                             ELSE [r EXCEPT !.match = byTime, !.pc = "byTimeEnd"]
                   IN  Continue(k, r2, ListLast("call", r2, "byTime", 0, ""))
         [] r.pc = "byTimeEnd" ->
              \* the ZRangeByScore at the next offset returns nothing and ends the loop
              IF fails THEN ListFailed(k, r)
              ELSE LET r2 == ListBuild(r, IF q.searchKey # <<>>
                                          THEN (r.matchName \cup r.matchTags) \cap r.match
                                          ELSE r.match)
                   IN  Continue(k, r2, ListLast("call", r2, "byTimeEnd", 0, ""))
         [] r.pc = "insert" ->
              \* getCacheSortSet again, and InsertSet of WriteToTmpSet
              IF fails THEN ListFailed(k, [r EXCEPT !.key = key])
              ELSE LET r2 == [r EXCEPT !.key = key, !.pc = "ttl"]
                   IN  Continue(k, r2, ListLast("call", r2, "insert", 0, ""))
         [] r.pc = "ttl" ->
              \* SetTTL of WriteToTmpSet, whose error is dropped; when nothing was
              \* inserted the key is the one getCacheSortSet returns now
              LET r2 == [r EXCEPT !.key = IF r.match = {} THEN key ELSE r.key,
                                  !.failAt = IF fails THEN "ttl" ELSE @, !.pc = "sort"]
              IN  Continue(k, r2, ListLast("call", r2, "ttl", 0, IF fails THEN "errStore" ELSE ""))
         [] r.pc = "sort" ->
              \* Sort of sortAndBuildResult
              IF fails THEN ListFailed(k, r)
              ELSE ListMembers(k, r,
                               Page(IF r.key = <<"zset">> THEN {m[1] : m \in zset}
                                    ELSE IF r.key \in DOMAIN tmpSets THEN tmpSets[r.key].members
                                    ELSE {}, q.pageIndex, q.pageSize), "sort")
         [] r.pc = "read" ->
              \* getDataSetById: the branch without search key and order_by returns its
              \* error and appends every record; sortAndBuildResult passes over a member
              \* whose read failed or whose record has no id
              LET id == DecodeDataSet(hash).Id
                  keep == IF ListPath(q) = "range" THEN ~fails ELSE ~fails /\ id # ""
                  r2 == [r EXCEPT !.got = IF keep THEN Append(@, id) ELSE @,
                                  !.failAt = IF fails THEN "read" ELSE @, !.mi = r.mi + 1]
              IN  IF fails /\ ListPath(q) = "range" THEN ListFailed(k, r)
                  ELSE IF r.mi = Len(r.members)
                  THEN Return(k, ListLast("list", r2, "ok", 200, ""))
                  ELSE Continue(k, r2, ListLast("call", r2, "read", 0, ""))
    /\ UNCHANGED <<build, hash, zset, nameKeys, tagsKeys, replicaKey, versions, workers,
                   started, idUsed, now, call, updates>>

\* the clock goes on to its next reading
Tick ==
    /\ \E i \in 1..(Len(ListTimes) - 1) : now = ListTimes[i] /\ now' = ListTimes[i + 1]
    /\ UNCHANGED <<build, hash, zset, nameKeys, tagsKeys, replicaKey, versions, requests,
                   workers, started, faults, idUsed, last, call, tmpSets, updates>>

List ==
    \/ \E q \in ListQueries : ListDataSets(q)
    \/ \E k \in 1..Len(requests), fails \in BOOLEAN : ListStep(k, fails)

NextList == CreateNamed \/ Delete \/ List \/ Tick

SpecList == Init /\ [][NextList]_vars

---------------------------------------------------------------------------
(* C24 *)

\* C24: in every listing branch an id an index returns whose primary hash no longer
\* exists is left out of the result and the listing succeeds: a listing none of
\* whose calls failed is answered 200, and every record it returns is the stored
\* record of its id.
C24_MissingHashOmitted ==
    (last.op = "list" /\ last.list.failAt = "") =>
        /\ last.code = 200
        /\ \A i \in 1..Len(last.got) : Stored /\ last.got[i] = hash["id"]

\* a listing without search key and order_by was answered 200 while the sorted set
\* held the id of a deleted dataset
C24_Reached ==
    /\ last.op = "list" /\ last.list.failAt = "" /\ last.path = "range"
    /\ last.code = 200 /\ ~Stored /\ hash = NoHash /\ zset # {} /\ last.got # <<>>

---------------------------------------------------------------------------
(* C25 *)

\* the last step answered a listing that came right after the answer of a listing
\* with the same form, both were answered 200 with no failed call, and all their
\* readings of the clock fall into one 20-second bucket
Repeated ==
    /\ last.op = "list" /\ last.code = 200 /\ last.list.failAt = ""
    /\ UsesTmpSet(last.list.q)
    /\ last.list.prev.op = "list" /\ last.list.prev.code = 200
    /\ last.list.prev.list # <<>>
    /\ last.list.prev.list.failAt = ""
    /\ last.list.prev.list.q = last.list.q
    /\ last.list.prev.list.key = last.list.prev.list.key1
    /\ last.list.prev.list.key = last.list.key1
    /\ last.list.key = last.list.key1

\* C25: of two identical list queries that use the ephemeral sort cache, follow one
\* another, fall into the same 20-second bucket and are both answered 200 with no
\* failed call, the second uses the ephemeral set of the first: it does not build
\* the set from the indexes again, and it returns the same ids in the same order.
C25_SameBucketReuse ==
    Repeated => (~last.list.rebuilt /\ last.got = last.list.prev.got)

\* a search was repeated within its bucket after it had matched nothing
C25_Reached ==
    /\ Repeated
    /\ last.list.q.searchKey = <<"z", "z">>
    /\ last.list.rebuilt /\ tmpSets = <<>>

---------------------------------------------------------------------------
(* C37 *)

\* C37: a listing that follows a create which failed after its hash was written
\* (at the sorted-set insert, the name key, the tags key or the default version)
\* and is answered 200 does not return the dataset.
C37_FailedCreateNotListed ==
    (/\ last.op = "list" /\ last.code = 200
     /\ last.list.prev.op = "create" /\ last.list.prev.code = 500
     /\ last.list.prev.exit \in {"zadd", "nameKey", "tagsKey", "version"})
    => last.got = <<>>

\* a listing has returned the dataset whose create was answered 500: its default
\* version was never created
C37_Reached ==
    /\ last.op = "list" /\ last.code = 200 /\ last.got = <<DataSetID>>
    /\ last.list.prev.op = "create" /\ last.list.prev.code = 500
    /\ faults = 1 /\ idUsed /\ versions = NoVersions /\ HasField(hash, "id")

---------------------------------------------------------------------------
(* C38 *)

\* C38: every ephemeral set a listing has left in the store has a time to live
\* between 1 and 120 seconds.  Stated for the states in which no listing is in
\* flight.
C38_TmpSetsExpire ==
    requests = <<>> => \A k \in DOMAIN tmpSets : tmpSets[k].ttl \in 1..120

\* a listing was answered 200 from the set it built although SetTTL failed: the set
\* is in the store without a time to live
C38_Reached ==
    /\ last.op = "list" /\ last.code = 200 /\ last.list.failAt = "ttl"
    /\ last.got = <<DataSetID>> /\ requests = <<>>
    /\ \E k \in DOMAIN tmpSets : tmpSets[k].ttl = 0 /\ tmpSets[k].members = {DataSetID}

---------------------------------------------------------------------------
(* validateReplica on its own: any wanted count, any configured maximum, any *)
(* content of the Dynconfig directory                                        *)

\* seed peers a directory may list: two hosts, a second port on the first, the local
\* daemon, a peer without object storage
PeerPool == { SeedPeer(IpOf(1), 80), SeedPeer(IpOf(2), 80), SeedPeer(IpOf(1), 81),
              SeedPeer(AdvertiseIP, 80), SeedPeer(IpOf(3), 0) }

PeerSeqs(n) == UNION { [1..k -> PeerPool] : k \in 0..n }

\* no scheduler, one scheduler with up to two seed peers, or a second one with up to one
Directories ==
    {<<>>} \cup { <<[SeedPeers |-> s]>> : s \in PeerSeqs(2) }
           \cup { <<[SeedPeers |-> s], [SeedPeers |-> t]>> : s \in PeerSeqs(2), t \in PeerSeqs(1) }

ValidateArgs(wanted, maxReplicas, schedulers, dynErr) ==
    [wanted |-> wanted, maxReplicas |-> maxReplicas, schedulers |-> schedulers, dynErr |-> dynErr]

InitValidate ==
    /\ build \in Builds
    /\ hash = NoHash
    /\ zset = {}
    /\ nameKeys = {}
    /\ tagsKeys = {}
    /\ replicaKey = NoKey
    /\ versions = NoVersions
    /\ requests = <<>>
    /\ workers = <<>>
    /\ started = 0
    /\ faults = 0
    /\ idUsed = FALSE
    /\ updates = 0
    /\ now = 1
    /\ last = Last("none", "", "", 0, "")
    /\ tmpSets = <<>>
    /\ \E wanted \in Wanted, maxReplicas \in 1..MaxReplicas, schedulers \in Directories,
          dynErr \in BOOLEAN :
          call = [fn |-> "validateReplica",
                  args |-> ValidateArgs(wanted, maxReplicas, schedulers, dynErr),
                  done |-> FALSE, ret |-> ""]

Validate ==
    /\ call.fn = "validateReplica" /\ ~call.done
    /\ call' = [call EXCEPT !.done = TRUE,
                            !.ret = validateReplica(call.args.wanted, call.args.maxReplicas,
                                                    call.args.schedulers, call.args.dynErr)]
    /\ UNCHANGED <<tmpSets, build, hash, zset, nameKeys, tagsKeys, replicaKey, versions, requests,
                   workers, started,
                   faults, idUsed, now, last, updates>>

NextValidate == Validate

SpecValidate == InitValidate /\ [][NextValidate]_vars

---------------------------------------------------------------------------
(* The scanning loop of MatchKeysByPrefix on its own: a keyspace of a few keys,  *)
(* read in batches that are smaller than the keyspace.                            *)

\* keys in the keyspace
MaxKeys == 3
\* keys one Scan call walks over (the count argument, 100 in the code)
ScanBatch == 2
\* Scan calls of one MatchKeysByPrefix whose cursors are recorded
MaxScans == 3
\* the search key of the scans
ScanFor == <<"n", "1">>

\* keys as MakeStorageKey builds them, split at ":"; the last segment, a name or
\* the joined tags, is a sequence of characters
ScanKeys ==
    {<<"urchin", "dataset", "d1", "match_prefix_name", <<"n", "1">>>>,
     <<"urchin", "dataset", "d2", "match_prefix_name", <<"x", "n", "1">>>>,
     <<"urchin", "dataset", "d3", "match_prefix_tags", <<"n", "1", "_", "t">>>>,
     <<"urchin", "dataset", "d4", "match_prefix_name", <<"z", "z">>>>}

\* scan(cursor, pattern, batch) of the store with the pattern
\* <prefix>*match_prefix_name:*searchKey*: the keys after position cursor, the
\* name keys of the batch whose name contains the search key, and the position to
\* go on from, 0 at the end
Scan(keys, cursor, searchKey, count) ==
    [members |-> SelectSeq(SubSeq(keys, cursor + 1, Min(cursor + count, Len(keys))),
                           LAMBDA k : k[4] = "match_prefix_name" /\ Contains(k[5], searchKey)),
     cursor  |-> IF cursor + count >= Len(keys) THEN 0 ELSE cursor + count]

InitScan ==
    /\ build \in Builds
    /\ hash = NoHash
    /\ zset = {}
    /\ nameKeys = {}
    /\ tagsKeys = {}
    /\ replicaKey = NoKey
    /\ versions = NoVersions
    /\ requests = <<>>
    /\ workers = <<>>
    /\ started = 0
    /\ faults = 0
    /\ idUsed = FALSE
    /\ updates = 0
    /\ now = 1
    /\ last = Last("none", "", "", 0, "")
    /\ tmpSets = <<>>
    /\ \E S \in SUBSET ScanKeys : \E keys \in Perms(S) :
          /\ Len(keys) <= MaxKeys
          /\ call = [fn |-> "MatchKeysByPrefix", args |-> keys, done |-> FALSE, ret |-> "",
                     cursor |-> 0, matchResult |-> {}, given |-> <<>>, returned |-> <<>>,
                     scans |-> 0]

\* one round of the loop of MatchKeysByPrefix.  `members, cursor, err := Scan(...)`
\* declares a cursor of its own inside the loop body: the cursor that is tested is
\* the one Scan returned, the cursor of the function, which the next call is given,
\* keeps its value.  given and returned record the cursors of the first MaxScans
\* calls, scans the parity of the number of Scan calls made: every round of the loop
\* is a step, also a round that is given and returns what the round before it did.
MatchKeysByPrefixStep(fails) ==
    /\ call.fn = "MatchKeysByPrefix" /\ ~call.done
    /\ Charge(B(fails))
    /\ \E r \in {Scan(call.args, call.cursor, ScanFor, ScanBatch)} :
          call' = IF fails
                  THEN [call EXCEPT !.done = TRUE, !.ret = "errStore"]
                  ELSE [call EXCEPT
                          !.matchResult = @ \cup {r.members[i][3] : i \in 1..Len(r.members)},
                          !.given = IF Len(@) < MaxScans THEN Append(@, call.cursor) ELSE @,
                          !.returned = IF Len(@) < MaxScans THEN Append(@, r.cursor) ELSE @,
                          !.scans = (@ + 1) % 2,
                          !.done = (r.cursor = 0)]
    /\ UNCHANGED <<tmpSets, build, hash, zset, nameKeys, tagsKeys, replicaKey, versions, requests, workers,
                   started, idUsed, now, last, updates>>

NextScan == \E fails \in BOOLEAN : MatchKeysByPrefixStep(fails)

\* the loop runs on as long as it has not returned: a Scan call that the store
\* answers is followed by the rest of its round.  Whether the store fails a call is
\* the store's choice, which nothing forces.
SpecScan == InitScan /\ [][NextScan]_vars /\ WF_vars(MatchKeysByPrefixStep(FALSE))

---------------------------------------------------------------------------
(* C39 *)

\* C39: every call of MatchKeysByPrefix returns; every Scan call after the first is
\* given the cursor the call before it returned; and a call that has returned
\* without an error has the id of every matching key in its result.
C39_ScanTerminates ==
    /\ <>call.done
    /\ [](/\ \A i \in 2..Len(call.given) : call.given[i] = call.returned[i - 1]
          /\ (call.done /\ call.ret = "")
             => call.matchResult
                = {call.args[i][3] : i \in {j \in 1..Len(call.args) :
                                              /\ call.args[j][4] = "match_prefix_name"
                                              /\ Contains(call.args[j][5], ScanFor)}})

\* the first Scan of a keyspace of three keys has returned the cursor 2 and the next
\* call was given 0 again
C39_Reached ==
    /\ Len(call.args) = 3 /\ ~call.done
    /\ Len(call.given) >= 2 /\ call.returned[1] = 2 /\ call.given[2] = 0

---------------------------------------------------------------------------
(* Datasets whose origin copy is registered by a PATCH of share_blob_sources      *)
====
